---------------------------- MODULE Spec2Model ----------------------------
(***************************************************************************)
(* A model of csv-browser-stream: the single-line field tokenizer          *)
(* (parseCsvLine, src/src/parser.ts) and the chunked CSV parser CSVStream  *)
(* (expectHeaders / strictColumns version, src/unnamed/part_004).          *)
(*                                                                         *)
(* A JavaScript string is modelled as a sequence of characters, and a      *)
(* character as a one-character TLA+ string.  The byte-order mark U+FEFF   *)
(* is written "BOM".                                                       *)
(***************************************************************************)
EXTENDS Integers, Sequences, FiniteSets, TLC

(***************************************************************************)
(* Bounds of the model.                                                    *)
(***************************************************************************)
\* longest input text delivered to one CSVStream
MaxInput == 4
\* longest line handed to parseCsvLine in the tokenizer specification
MaxLine == 5
\* longest input text delivered to a CSVStream with a cancellation signal
MaxInputCancel == 3
\* a listener aborts the signal during one of the first MaxAbortIn events
\* dispatched by a call, or not at all
MaxAbortIn == 2

(***************************************************************************)
(* Characters.                                                             *)
(***************************************************************************)
Quote == "\""
LF == "\n"
CR == "\r"
BOM == "BOM"
Comma == ","

\* the characters input texts are made of
Alphabet == {"a", Comma, Quote, LF, CR}

\* all texts over a character set, up to a length
TextsUpTo(chars, n) == UNION {[1..k -> chars] : k \in 0..n}

Min(S) == CHOOSE x \in S : \A y \in S : x <= y
Max(S) == CHOOSE x \in S : \A y \in S : x >= y

(***************************************************************************)
(* String helpers of the JavaScript runtime used by the parser.            *)
(***************************************************************************)
\* the characters String.prototype.trim removes (WhiteSpace and
\* LineTerminator of ECMAScript; U+FEFF is WhiteSpace)
IsWhitespace(c) == c \in {" ", "\t", LF, CR, BOM}

\* String.prototype.trim
Trim(s) ==
  LET keep == {i \in 1..Len(s) : ~IsWhitespace(s[i])}
  IN IF keep = {} THEN <<>> ELSE SubSeq(s, Min(keep), Max(keep))

\* the raw line kept as it is: the carriage return stays
StripTrailingCRNever(s) == s

\* rawLine.replace(/\r$/, ''): removes one carriage return at the very end
StripTrailingCR(s) ==
  IF Len(s) > 0 /\ s[Len(s)] = CR THEN SubSeq(s, 1, Len(s) - 1) ELSE s

\* new TextEncoder().encode(chunk).length
RECURSIVE Utf8Length(_)
Utf8Length(s) ==
  IF s = <<>> THEN 0
  ELSE (IF Head(s) = BOM THEN 3 ELSE 1) + Utf8Length(Tail(s))

\* String(n) for a small non-negative integer
Digit(d) == CASE d = 0 -> "0" [] d = 1 -> "1" [] d = 2 -> "2" [] d = 3 -> "3"
              [] d = 4 -> "4" [] d = 5 -> "5" [] d = 6 -> "6" [] d = 7 -> "7"
              [] d = 8 -> "8" [] d = 9 -> "9"
RECURSIVE NumberToString(_)
NumberToString(n) ==
  IF n < 10 THEN <<Digit(n)>>
  ELSE Append(NumberToString(n \div 10), Digit(n % 10))

(***************************************************************************)
(* parser.ts                                                               *)
(***************************************************************************)
\* normalizeHeader that strips the leading U+FEFF and does not trim
normalizeHeaderBomOnly(value) ==
  IF Len(value) > 0 /\ value[1] = BOM THEN Tail(value) ELSE value

\* normalizeHeader: strips one leading U+FEFF, then trims
normalizeHeader(value) ==
  Trim(IF Len(value) > 0 /\ value[1] = BOM THEN Tail(value) ELSE value)

\* parseLoop that consumes only the first quote of an escaped quote
RECURSIVE parseLoopNoSkip(_, _, _, _, _, _)
parseLoopNoSkip(line, delimiter, i, fields, current, inQuotes) ==
  IF i > Len(line) THEN
    [fields |-> fields, current |-> current, inQuotes |-> inQuotes]
  ELSE IF line[i] = Quote THEN
    IF inQuotes /\ i + 1 <= Len(line) /\ line[i + 1] = Quote
    THEN parseLoopNoSkip(line, delimiter, i + 1, fields, Append(current, Quote), inQuotes)
    ELSE parseLoopNoSkip(line, delimiter, i + 1, fields, current, ~inQuotes)
  ELSE IF line[i] = delimiter /\ ~inQuotes THEN
    parseLoopNoSkip(line, delimiter, i + 1, Append(fields, current), <<>>, inQuotes)
  ELSE
    parseLoopNoSkip(line, delimiter, i + 1, fields, Append(current, line[i]), inQuotes)

\* the for loop of parseCsvLine, from (1-based) index i on; the result is
\* the values of the locals fields, current and inQuotes when it ends
RECURSIVE parseLoop(_, _, _, _, _, _)
parseLoop(line, delimiter, i, fields, current, inQuotes) ==
  IF i > Len(line) THEN
    [fields |-> fields, current |-> current, inQuotes |-> inQuotes]
  ELSE IF line[i] = Quote THEN
    IF inQuotes /\ i + 1 <= Len(line) /\ line[i + 1] = Quote
    THEN parseLoop(line, delimiter, i + 2, fields, Append(current, Quote), inQuotes)
    ELSE parseLoop(line, delimiter, i + 1, fields, current, ~inQuotes)
  ELSE IF line[i] = delimiter /\ ~inQuotes THEN
    parseLoop(line, delimiter, i + 1, Append(fields, current), <<>>, inQuotes)
  ELSE
    parseLoop(line, delimiter, i + 1, fields, Append(current, line[i]), inQuotes)

\* parseCsvLine without the check of inQuotes after the loop
parseCsvLineNoCheck(line, delimiter) ==
  LET end == parseLoop(line, delimiter, 1, <<>>, <<>>, FALSE)
  IN [fields |-> Append(end.fields, end.current)]

\* parseCsvLine: a ParseResult, either [fields |-> ...] or [error |-> ...]
parseCsvLine(line, delimiter) ==
  LET end == parseLoop(line, delimiter, 1, <<>>, <<>>, FALSE)
  IN IF end.inQuotes
     THEN [error |-> "UNBALANCED_QUOTES"]
     ELSE [fields |-> Append(end.fields, end.current)]

IsError(parsed) == "error" \in DOMAIN parsed

(***************************************************************************)
(* State.                                                                  *)
(***************************************************************************)
VARIABLES
  \* the private fields of one CSVStream
  options,          \* _options
  headers,          \* _headers: <<>> for null, <<list>> for a header list
  lineNum,          \* _lineNum
  rowNum,           \* _rowNum
  buffer,           \* _buffer
  bytesProcessed,   \* _bytesProcessed
  lastProgressRow,  \* _lastProgressRow
  aborted,          \* _aborted
  headersValidated, \* _headersValidated
  hasError,         \* _hasError
  \* what the stream has produced
  events,           \* the events dispatched to the listeners, in order
  sink,             \* the rows enqueued on the readable side, in order
  \* the producer writing to the writable side
  source,           \* the text not delivered yet
  input,            \* the text delivered so far, whatever the fragments
  closed,           \* the writable side was closed: _flush has been called
  cuts,             \* the kinds of places where the text was cut so far
  \* the raw lines _processLine has been called with, in order
  handed,
  \* the tokenizer specification: the last call of parseCsvLine
  tokLine, tokDelimiter, tokResult,
  \* the validate specification: one call of validate (src/validate.ts)
  validation,       \* its locals state and headersValidated, and what the
                    \* row callback and the stream reader have done so far
  result,           \* the ValidateResult it resolved with, <<>> until then
  \* the collect specification: one call of collect (unnamed/part_001)
  collecting,       \* its locals accumulated, userError and streamError, and
                    \* what the reducer callback and the reader have done
  settlement,       \* how its promise settled (outcome) and how many events
                    \* the stream had dispatched by then (seen), <<>> until then
  \* the writer specification: one stream of createCSVWriteStream, or one
  \* call of rowToLine (unnamed/part_005)
  writer,           \* the locals headers and headersSent, the chunks enqueued
  written           \* the rows written so far, in order

streamVars == <<options, headers, lineNum, rowNum, buffer, bytesProcessed,
                lastProgressRow, aborted, headersValidated, hasError,
                events, sink, source, input, closed, cuts, handed>>
tokVars == <<tokLine, tokDelimiter, tokResult>>
validateVars == <<validation, result>>
collectVars == <<collecting, settlement>>
writerVars == <<writer, written>>
vars == <<options, headers, lineNum, rowNum, buffer, bytesProcessed,
          lastProgressRow, aborted, headersValidated, hasError,
          events, sink, source, input, closed, cuts, handed,
          tokLine, tokDelimiter, tokResult, validation, result,
          collecting, settlement, writer, written>>

\* a nullable value: <<>> is null/undefined, <<v>> is the value v
Null == <<>>
Some(v) == <<v>>
IsNull(o) == o = <<>>
Value(o) == o[1]

\* the fields of the stream an operation reads and writes, as one record;
\* abortIn is the listeners' behaviour during the current call: the signal
\* is aborted by a listener while it handles the abortIn-th event dispatched
\* from now on (0: by none)
Self(abortIn) ==
  [headers |-> headers, lineNum |-> lineNum, rowNum |-> rowNum,
   buffer |-> buffer, bytesProcessed |-> bytesProcessed,
   lastProgressRow |-> lastProgressRow, aborted |-> aborted,
   headersValidated |-> headersValidated, hasError |-> hasError,
   events |-> events, sink |-> sink, handed |-> handed, abortIn |-> abortIn]

\* the constructor keeping the supplied header names as they are
NewKeepsNames(o) ==
  [headers |-> IF ~IsNull(o.headers) /\ ~o.expectHeaders
               THEN Some(Value(o.headers))
               ELSE Null,
   lineNum |-> 0, rowNum |-> 0, buffer |-> <<>>, bytesProcessed |-> 0,
   lastProgressRow |-> 0, aborted |-> FALSE, headersValidated |-> FALSE,
   hasError |-> FALSE, events |-> <<>>, sink |-> <<>>, handed |-> <<>>,
   abortIn |-> 0]

\* the constructor: the fields of a new CSVStream built with options o
New(o) ==
  [headers |-> IF ~IsNull(o.headers) /\ ~o.expectHeaders
               THEN Some([i \in 1..Len(Value(o.headers)) |->
                            normalizeHeader(Value(o.headers)[i])])
               ELSE Null,
   lineNum |-> 0, rowNum |-> 0, buffer |-> <<>>, bytesProcessed |-> 0,
   lastProgressRow |-> 0, aborted |-> FALSE, headersValidated |-> FALSE,
   hasError |-> FALSE, events |-> <<>>, sink |-> <<>>, handed |-> <<>>,
   abortIn |-> 0]

(***************************************************************************)
(* CSVStream (unnamed/part_004).  Each method is an operator from the      *)
(* stream's fields, and the options o, to the fields when it returns.      *)
(***************************************************************************)
\* _emit: dispatchEvent runs the listeners synchronously; the abort
\* listener of the constructor sets _aborted when a listener aborts the
\* signal.  forwarded is what the listeners find when they run: the number
\* of rows enqueued so far; aborts tells whether one of them aborts the
\* signal
emit(s, type, detail) ==
  [s EXCEPT !.events = Append(@, [type |-> type, detail |-> detail,
                                  forwarded |-> Len(s.sink),
                                  aborts |-> s.abortIn = 1]),
            !.aborted = @ \/ s.abortIn = 1,
            !.abortIn = IF @ > 0 THEN @ - 1 ELSE 0]

\* _maybeEmitProgress that never moves the last-progress-row marker
maybeEmitProgressKeepsMarker(s, o) ==
  IF o.progressInterval = 0 THEN s
  ELSE IF s.rowNum - s.lastProgressRow >= o.progressInterval
  THEN emit(s, "progress",
            [bytesProcessed |-> s.bytesProcessed, totalBytes |-> o.totalBytes,
             lineNum |-> s.lineNum, rowNum |-> s.rowNum])
  ELSE s

\* _maybeEmitProgress
maybeEmitProgress(s, o) ==
  IF o.progressInterval = 0 THEN s
  ELSE IF s.rowNum - s.lastProgressRow >= o.progressInterval
  THEN emit([s EXCEPT !.lastProgressRow = s.rowNum], "progress",
            [bytesProcessed |-> s.bytesProcessed, totalBytes |-> o.totalBytes,
             lineNum |-> s.lineNum, rowNum |-> s.rowNum])
  ELSE s

\* the name that an assignment obj[name] = value to an object literal
\* does not store as a key: it reaches the __proto__ setter of
\* Object.prototype, which ignores a string
ProtoName == <<"_", "_", "p", "r", "o", "t", "o", "_", "_">>

\* the row object built from the header list h by obj[h[i]] = fields[i] ?? ''
\* in index order: later duplicates of a header overwrite earlier ones,
\* missing fields are '', and a header named __proto__ leaves no key
rowWithHeaders(h, fields) ==
  [k \in {h[i] : i \in 1..Len(h)} \ {ProtoName} |->
     LET last == Max({i \in 1..Len(h) : h[i] = k})
     IN IF last <= Len(fields) THEN fields[last] ELSE <<>>]

\* the row object with the keys "0", "1", "2", ...
rowWithNumericKeysZeroBased(fields) ==
  [k \in {NumberToString(i - 1) : i \in 1..Len(fields)} |->
     fields[CHOOSE i \in 1..Len(fields) : NumberToString(i - 1) = k]]

\* the row object with the keys "1", "2", "3", ...
rowWithNumericKeys(fields) ==
  [k \in {NumberToString(i) : i \in 1..Len(fields)} |->
     fields[CHOOSE i \in 1..Len(fields) : NumberToString(i) = k]]

\* hasNonEmptyExtra without the trim
hasNonEmptyExtraNoTrim(h, fields) ==
  \E i \in (Len(h) + 1)..Len(fields) : fields[i] # <<>>

\* hasNonEmptyExtra of the strict column validation
hasNonEmptyExtra(h, fields) ==
  \E i \in (Len(h) + 1)..Len(fields) : Trim(fields[i]) # <<>>

\* the data row logic numbering the rows from 0: the event carries the row
\* counter before the increment
processRowNumbersFromZero(s0, o, line, fields) ==
  LET s == [s0 EXCEPT !.rowNum = @ + 1]
  IN IF o.strictColumns /\ ~IsNull(s.headers)
        /\ hasNonEmptyExtra(Value(s.headers), fields)
     THEN emit([s EXCEPT !.hasError = TRUE], "error",
               [type |-> "PARSE_ERROR",
                message |-> [text |-> "Row has columns but expected",
                             row |-> s.rowNum, columns |-> Len(fields),
                             headerCount |-> Len(Value(s.headers))],
                lineNum |-> s.lineNum, raw |-> line])
     ELSE
       LET row == IF ~IsNull(s.headers)
                  THEN rowWithHeaders(Value(s.headers), fields)
                  ELSE rowWithNumericKeys(fields)
           s1 == emit(s, "csvrow",
                      [rowNum |-> s0.rowNum, fields |-> row, raw |-> line,
                       fieldsArray |-> fields, columnCount |-> Len(fields)])
           s2 == maybeEmitProgress(s1, o)
       IN [s2 EXCEPT !.sink = Append(@, row)]

\* the data row logic that enqueues the row before it dispatches its events
processRowForwardsFirst(s0, o, line, fields) ==
  LET s == [s0 EXCEPT !.rowNum = @ + 1]
  IN IF o.strictColumns /\ ~IsNull(s.headers)
        /\ hasNonEmptyExtra(Value(s.headers), fields)
     THEN emit([s EXCEPT !.hasError = TRUE], "error",
               [type |-> "PARSE_ERROR",
                message |-> [text |-> "Row has columns but expected",
                             row |-> s.rowNum, columns |-> Len(fields),
                             headerCount |-> Len(Value(s.headers))],
                lineNum |-> s.lineNum, raw |-> line])
     ELSE
       LET row == IF ~IsNull(s.headers)
                  THEN rowWithHeaders(Value(s.headers), fields)
                  ELSE rowWithNumericKeys(fields)
           s1 == emit([s EXCEPT !.sink = Append(@, row)], "csvrow",
                      [rowNum |-> s.rowNum, fields |-> row, raw |-> line,
                       fieldsArray |-> fields, columnCount |-> Len(fields)])
       IN maybeEmitProgress(s1, o)

\* the data row logic that stops as soon as a listener of the csvrow event
\* has aborted the signal
processRowStopsWhenAborted(s0, o, line, fields) ==
  LET s == [s0 EXCEPT !.rowNum = @ + 1]
  IN IF o.strictColumns /\ ~IsNull(s.headers)
        /\ hasNonEmptyExtra(Value(s.headers), fields)
     THEN emit([s EXCEPT !.hasError = TRUE], "error",
               [type |-> "PARSE_ERROR",
                message |-> [text |-> "Row has columns but expected",
                             row |-> s.rowNum, columns |-> Len(fields),
                             headerCount |-> Len(Value(s.headers))],
                lineNum |-> s.lineNum, raw |-> line])
     ELSE
       LET row == IF ~IsNull(s.headers)
                  THEN rowWithHeaders(Value(s.headers), fields)
                  ELSE rowWithNumericKeys(fields)
           s1 == emit(s, "csvrow",
                      [rowNum |-> s.rowNum, fields |-> row, raw |-> line,
                       fieldsArray |-> fields, columnCount |-> Len(fields)])
           s2 == maybeEmitProgress(s1, o)
       IN IF s1.aborted THEN s1 ELSE [s2 EXCEPT !.sink = Append(@, row)]

\* the data row logic that enforces strict columns without resolved
\* headers too, against an empty header list
processRowStrictAlways(s0, o, line, fields) ==
  LET s == [s0 EXCEPT !.rowNum = @ + 1]
      h == IF IsNull(s.headers) THEN <<>> ELSE Value(s.headers)
  IN IF o.strictColumns /\ hasNonEmptyExtra(h, fields)
     THEN emit([s EXCEPT !.hasError = TRUE], "error",
               [type |-> "PARSE_ERROR",
                message |-> [text |-> "Row has columns but expected",
                             row |-> s.rowNum, columns |-> Len(fields),
                             headerCount |-> Len(h)],
                lineNum |-> s.lineNum, raw |-> line])
     ELSE
       LET row == IF ~IsNull(s.headers)
                  THEN rowWithHeaders(Value(s.headers), fields)
                  ELSE rowWithNumericKeys(fields)
           s1 == emit(s, "csvrow",
                      [rowNum |-> s.rowNum, fields |-> row, raw |-> line,
                       fieldsArray |-> fields, columnCount |-> Len(fields)])
           s2 == maybeEmitProgress(s1, o)
       IN [s2 EXCEPT !.sink = Append(@, row)]

\* _processLine, after the header row logic: a data row
processRow(s0, o, line, fields) ==
  LET s == [s0 EXCEPT !.rowNum = @ + 1]
  IN IF o.strictColumns /\ ~IsNull(s.headers)
        /\ hasNonEmptyExtra(Value(s.headers), fields)
     THEN emit([s EXCEPT !.hasError = TRUE], "error",
               [type |-> "PARSE_ERROR",
                message |-> [text |-> "Row has columns but expected",
                             row |-> s.rowNum, columns |-> Len(fields),
                             headerCount |-> Len(Value(s.headers))],
                lineNum |-> s.lineNum, raw |-> line])
     ELSE
       LET row == IF ~IsNull(s.headers)
                  THEN rowWithHeaders(Value(s.headers), fields)
                  ELSE rowWithNumericKeys(fields)
           s1 == emit(s, "csvrow",
                      [rowNum |-> s.rowNum, fields |-> row, raw |-> line,
                       fieldsArray |-> fields, columnCount |-> Len(fields)])
           s2 == maybeEmitProgress(s1, o)
       IN [s2 EXCEPT !.sink = Append(@, row)]

\* matches without the comparison of the lengths
headersMatchNoCount(expected, parsedHeaders) ==
  \A i \in 1..Len(expected) :
    i <= Len(parsedHeaders) /\ expected[i] = parsedHeaders[i]

\* matches of the header validation
headersMatch(expected, parsedHeaders) ==
  /\ Len(expected) = Len(parsedHeaders)
  /\ \A i \in 1..Len(expected) : expected[i] = parsedHeaders[i]

\* the header row logic counting the header line as a row
processHeaderCountsRow(s0, o, line, fields) ==
  LET s == [s0 EXCEPT !.headersValidated = TRUE, !.rowNum = @ + 1]
      parsedHeaders == [i \in 1..Len(fields) |->
                          IF i = 1 THEN normalizeHeader(fields[i])
                          ELSE Trim(fields[i])]
      expected == [i \in 1..Len(Value(o.headers)) |->
                     normalizeHeader(Value(o.headers)[i])]
  IN IF ~IsNull(o.headers) /\ ~headersMatch(expected, parsedHeaders)
     THEN emit([s EXCEPT !.hasError = TRUE], "error",
               [type |-> "PARSE_ERROR",
                message |-> [text |-> "Header mismatch: expected, got",
                             expected |-> expected, got |-> parsedHeaders],
                lineNum |-> s.lineNum, raw |-> line])
     ELSE emit([s EXCEPT !.headers = Some(parsedHeaders)], "headers",
               [headers |-> parsedHeaders, lineNum |-> s.lineNum])

\* the header row logic that goes on to emit the header line as a row
processHeaderAlsoRow(s0, o, line, fields) ==
  LET s == [s0 EXCEPT !.headersValidated = TRUE]
      parsedHeaders == [i \in 1..Len(fields) |->
                          IF i = 1 THEN normalizeHeader(fields[i])
                          ELSE Trim(fields[i])]
      expected == [i \in 1..Len(Value(o.headers)) |->
                     normalizeHeader(Value(o.headers)[i])]
  IN IF ~IsNull(o.headers) /\ ~headersMatch(expected, parsedHeaders)
     THEN emit([s EXCEPT !.hasError = TRUE], "error",
               [type |-> "PARSE_ERROR",
                message |-> [text |-> "Header mismatch: expected, got",
                             expected |-> expected, got |-> parsedHeaders],
                lineNum |-> s.lineNum, raw |-> line])
     ELSE processRow(emit([s EXCEPT !.headers = Some(parsedHeaders)], "headers",
                          [headers |-> parsedHeaders, lineNum |-> s.lineNum]),
                     o, line, fields)

\* _processLine, the header row logic
processHeader(s0, o, line, fields) ==
  LET s == [s0 EXCEPT !.headersValidated = TRUE]
      parsedHeaders == [i \in 1..Len(fields) |->
                          IF i = 1 THEN normalizeHeader(fields[i])
                          ELSE Trim(fields[i])]
      expected == [i \in 1..Len(Value(o.headers)) |->
                     normalizeHeader(Value(o.headers)[i])]
  IN IF ~IsNull(o.headers) /\ ~headersMatch(expected, parsedHeaders)
     THEN emit([s EXCEPT !.hasError = TRUE], "error",
               [type |-> "PARSE_ERROR",
                message |-> [text |-> "Header mismatch: expected, got",
                             expected |-> expected, got |-> parsedHeaders],
                lineNum |-> s.lineNum, raw |-> line])
     ELSE emit([s EXCEPT !.headers = Some(parsedHeaders)], "headers",
               [headers |-> parsedHeaders, lineNum |-> s.lineNum])

\* _processLine without the test of _headersValidated: every line is read
\* as a header row
processLineRereadsHeader(s0, o, rawLine) ==
  LET s == [s0 EXCEPT !.lineNum = @ + 1, !.handed = Append(@, rawLine)]
      line == StripTrailingCR(rawLine)
      parsed == parseCsvLine(line, o.delimiter)
  IN IF Trim(line) = <<>> THEN s
     ELSE IF IsError(parsed)
     THEN emit([s EXCEPT !.hasError = TRUE], "error",
               [type |-> parsed.error,
                message |-> [text |-> "CSV parsing error", error |-> parsed.error],
                lineNum |-> s.lineNum, raw |-> line])
     ELSE IF o.expectHeaders
     THEN processHeader(s, o, line, parsed.fields)
     ELSE processRow(s, o, line, parsed.fields)

\* _processLine skipping only the empty line
processLineEmptyOnly(s0, o, rawLine) ==
  LET s == [s0 EXCEPT !.lineNum = @ + 1, !.handed = Append(@, rawLine)]
      line == StripTrailingCR(rawLine)
      parsed == parseCsvLine(line, o.delimiter)
  IN IF line = <<>> THEN s
     ELSE IF IsError(parsed)
     THEN emit([s EXCEPT !.hasError = TRUE], "error",
               [type |-> parsed.error,
                message |-> [text |-> "CSV parsing error", error |-> parsed.error],
                lineNum |-> s.lineNum, raw |-> line])
     ELSE IF o.expectHeaders /\ ~s.headersValidated
     THEN processHeader(s, o, line, parsed.fields)
     ELSE processRow(s, o, line, parsed.fields)

\* _processLine that halts at a tokenizer error without dispatching it
processLineSilentError(s0, o, rawLine) ==
  LET s == [s0 EXCEPT !.lineNum = @ + 1, !.handed = Append(@, rawLine)]
      line == StripTrailingCR(rawLine)
      parsed == parseCsvLine(line, o.delimiter)
  IN IF Trim(line) = <<>> THEN s
     ELSE IF IsError(parsed)
     THEN [s EXCEPT !.hasError = TRUE]
     ELSE IF o.expectHeaders /\ ~s.headersValidated
     THEN processHeader(s, o, line, parsed.fields)
     ELSE processRow(s, o, line, parsed.fields)

\* _processLine without the test of expectHeaders: the first line is read
\* as a header row in every mode
processLineHeaderAlways(s0, o, rawLine) ==
  LET s == [s0 EXCEPT !.lineNum = @ + 1, !.handed = Append(@, rawLine)]
      line == StripTrailingCR(rawLine)
      parsed == parseCsvLine(line, o.delimiter)
  IN IF Trim(line) = <<>> THEN s
     ELSE IF IsError(parsed)
     THEN emit([s EXCEPT !.hasError = TRUE], "error",
               [type |-> parsed.error,
                message |-> [text |-> "CSV parsing error", error |-> parsed.error],
                lineNum |-> s.lineNum, raw |-> line])
     ELSE IF ~s.headersValidated
     THEN processHeader(s, o, line, parsed.fields)
     ELSE processRow(s, o, line, parsed.fields)

\* _processLine
processLine(s0, o, rawLine) ==
  LET s == [s0 EXCEPT !.lineNum = @ + 1, !.handed = Append(@, rawLine)]
      line == StripTrailingCR(rawLine)
      parsed == parseCsvLine(line, o.delimiter)
  IN IF Trim(line) = <<>> THEN s
     ELSE IF IsError(parsed)
     THEN emit([s EXCEPT !.hasError = TRUE], "error",
               [type |-> parsed.error,
                message |-> [text |-> "CSV parsing error", error |-> parsed.error],
                lineNum |-> s.lineNum, raw |-> line])
     ELSE IF o.expectHeaders /\ ~s.headersValidated
     THEN processHeader(s, o, line, parsed.fields)
     ELSE processRow(s, o, line, parsed.fields)

\* scanLoop without the check of _aborted and _hasError before a line
RECURSIVE scanLoopNoHalt(_, _, _, _, _)
scanLoopNoHalt(s, o, i, lineStart, inQuotes) ==
  IF i > Len(s.buffer) THEN
    [s EXCEPT !.buffer = SubSeq(s.buffer, lineStart, Len(s.buffer))]
  ELSE IF s.buffer[i] = Quote THEN
    IF inQuotes /\ i + 1 <= Len(s.buffer) /\ s.buffer[i + 1] = Quote
    THEN scanLoopNoHalt(s, o, i + 2, lineStart, inQuotes)
    ELSE scanLoopNoHalt(s, o, i + 1, lineStart, ~inQuotes)
  ELSE IF s.buffer[i] = LF /\ ~inQuotes THEN
    scanLoopNoHalt(processLine(s, o, SubSeq(s.buffer, lineStart, i - 1)),
                   o, i + 1, i + 1, inQuotes)
  ELSE scanLoopNoHalt(s, o, i + 1, lineStart, inQuotes)

\* scanLoop with a scanner that ends a line at every line terminator,
\* also inside a quoted region
RECURSIVE scanLoopSplitsQuoted(_, _, _, _, _)
scanLoopSplitsQuoted(s, o, i, lineStart, inQuotes) ==
  IF i > Len(s.buffer) THEN
    [s EXCEPT !.buffer = SubSeq(s.buffer, lineStart, Len(s.buffer))]
  ELSE IF s.buffer[i] = LF THEN
    IF s.aborted \/ s.hasError THEN s
    ELSE scanLoopSplitsQuoted(
           processLine(s, o, SubSeq(s.buffer, lineStart, i - 1)),
           o, i + 1, i + 1, inQuotes)
  ELSE scanLoopSplitsQuoted(s, o, i + 1, lineStart, inQuotes)

\* the for loop of _processBuffer from (1-based) index i on, and the final
\* assignment to _buffer; the buffer does not change during the loop
RECURSIVE scanLoop(_, _, _, _, _)
scanLoop(s, o, i, lineStart, inQuotes) ==
  IF i > Len(s.buffer) THEN
    [s EXCEPT !.buffer = SubSeq(s.buffer, lineStart, Len(s.buffer))]
  ELSE IF s.buffer[i] = Quote THEN
    IF inQuotes /\ i + 1 <= Len(s.buffer) /\ s.buffer[i + 1] = Quote
    THEN scanLoop(s, o, i + 2, lineStart, inQuotes)
    ELSE scanLoop(s, o, i + 1, lineStart, ~inQuotes)
  ELSE IF s.buffer[i] = LF /\ ~inQuotes THEN
    IF s.aborted \/ s.hasError THEN s
    ELSE scanLoop(processLine(s, o, SubSeq(s.buffer, lineStart, i - 1)),
                  o, i + 1, i + 1, inQuotes)
  ELSE scanLoop(s, o, i + 1, lineStart, inQuotes)

\* _processBuffer without the final assignment to _buffer: the lines handed
\* over stay in the pending text
processBufferKeepsLines(s, o) ==
  [scanLoop(s, o, 1, 1, FALSE) EXCEPT !.buffer = s.buffer]

\* _processBuffer
processBuffer(s, o) == scanLoop(s, o, 1, 1, FALSE)

\* _transform that scans the new fragment alone, forgetting the pending text
transformDropsPending(s, o, chunk) ==
  IF s.aborted \/ s.hasError THEN s
  ELSE processBuffer([s EXCEPT !.bytesProcessed = @ + Utf8Length(chunk),
                               !.buffer = chunk], o)

\* _transform that also processes the text after the last line terminator
\* as a line, ahead of its terminator
transformEager(s, o, chunk) ==
  IF s.aborted \/ s.hasError THEN s
  ELSE LET s1 == processBuffer([s EXCEPT !.bytesProcessed = @ + Utf8Length(chunk),
                                         !.buffer = @ \o chunk], o)
       IN IF s1.aborted \/ s1.hasError \/ s1.buffer = <<>> THEN s1
          ELSE [processLine(s1, o, s1.buffer) EXCEPT !.buffer = <<>>]

\* _transform that counts the bytes of the pending text with every fragment
transformCountsPending(s, o, chunk) ==
  IF s.aborted \/ s.hasError THEN s
  ELSE processBuffer([s EXCEPT !.bytesProcessed = @ + Utf8Length(s.buffer \o chunk),
                               !.buffer = @ \o chunk], o)

\* _transform
transform(s, o, chunk) ==
  IF s.aborted \/ s.hasError THEN s
  ELSE processBuffer([s EXCEPT !.bytesProcessed = @ + Utf8Length(chunk),
                               !.buffer = @ \o chunk], o)

\* _flush that drops the buffered text instead of processing it
flushDropsBuffer(s, o) ==
  IF s.aborted \/ s.hasError THEN s
  ELSE emit([s EXCEPT !.buffer = <<>>], "end",
            [totalRows |-> s.rowNum, totalLines |-> s.lineNum])

\* _flush that emits the end event before it processes the buffered text
flushEndsFirst(s, o) ==
  IF s.aborted \/ s.hasError THEN s
  ELSE LET s1 == emit(s, "end", [totalRows |-> s.rowNum, totalLines |-> s.lineNum])
       IN IF Len(s.buffer) > 0
          THEN [processLine(s1, o, s.buffer) EXCEPT !.buffer = <<>>]
          ELSE s1

\* _flush that processes the buffer as a line also when it is empty
flushCountsEmpty(s, o) ==
  IF s.aborted \/ s.hasError THEN s
  ELSE LET s1 == [processLine(s, o, s.buffer) EXCEPT !.buffer = <<>>]
       IN emit(s1, "end", [totalRows |-> s1.rowNum, totalLines |-> s1.lineNum])

\* _flush
flush(s, o) ==
  IF s.aborted \/ s.hasError THEN s
  ELSE LET s1 == IF Len(s.buffer) > 0
                 THEN [processLine(s, o, s.buffer) EXCEPT !.buffer = <<>>]
                 ELSE s
       IN emit(s1, "end", [totalRows |-> s1.rowNum, totalLines |-> s1.lineNum])

(***************************************************************************)
(* Specifications.                                                         *)
(***************************************************************************)
\* the header list supplied in the options, when one is supplied
SuppliedHeaders == << <<" ", "a">> >>

\* the options of the streams explored: the four header modes, with and
\* without strict columns, progress events off or after every row.
\* signal tells whether an AbortSignal is supplied, signalAborted whether
\* that signal is aborted already when the constructor runs
OptionsWith(signals) ==
  [delimiter : {Comma}, expectHeaders : BOOLEAN,
   headers : {Null, Some(SuppliedHeaders)}, signal : signals,
   signalAborted : IF TRUE \in signals THEN BOOLEAN ELSE {FALSE},
   totalBytes : {Null}, progressInterval : {0, 1}, strictColumns : BOOLEAN]

\* the stream's fields are those of the record s
StreamIs(s) ==
  /\ headers = s.headers
  /\ lineNum = s.lineNum
  /\ rowNum = s.rowNum
  /\ buffer = s.buffer
  /\ bytesProcessed = s.bytesProcessed
  /\ lastProgressRow = s.lastProgressRow
  /\ aborted = s.aborted
  /\ headersValidated = s.headersValidated
  /\ hasError = s.hasError
  /\ events = s.events
  /\ sink = s.sink
  /\ handed = s.handed

\* the stream's fields become those of the record s
StreamBecomes(s) ==
  /\ headers' = s.headers
  /\ lineNum' = s.lineNum
  /\ rowNum' = s.rowNum
  /\ buffer' = s.buffer
  /\ bytesProcessed' = s.bytesProcessed
  /\ lastProgressRow' = s.lastProgressRow
  /\ aborted' = s.aborted
  /\ headersValidated' = s.headersValidated
  /\ hasError' = s.hasError
  /\ events' = s.events
  /\ sink' = s.sink
  /\ handed' = s.handed

TokIdle ==
  /\ tokLine = <<>>
  /\ tokDelimiter = Comma
  /\ tokResult = Null

\* validate is not called
ValidateIdle ==
  /\ validation = Null
  /\ result = Null

\* collect is not called
CollectIdle ==
  /\ collecting = Null
  /\ settlement = Null

\* no writer is created
WriterIdle ==
  /\ writer = Null
  /\ written = <<>>

\* a new stream with some options, and a producer holding some text
InitWith(optionSet, texts) ==
  /\ options \in optionSet
  /\ source \in texts
  /\ StreamIs(New(options))
  /\ input = <<>>
  /\ closed = FALSE
  /\ cuts = {}
  /\ TokIdle
  /\ ValidateIdle
  /\ CollectIdle
  /\ WriterIdle

\* the number of quote characters of text before index i
QuotesBefore(text, i) == Cardinality({j \in 1..(i - 1) : text[j] = Quote})

\* what cutting text after its index k (0 < k < Len(text)) separates:
\* "crlf" a CR from the LF that ends its line, "quoted" the two sides of a quoted region,
\* "escape" the two quotes of an escaped quote
CutKinds(text, k) ==
  (IF /\ text[k] = CR /\ text[k + 1] = LF
      /\ QuotesBefore(text, k) % 2 = 0 THEN {"crlf"} ELSE {}) \cup
  (IF QuotesBefore(text, k + 1) % 2 = 1 THEN {"quoted"} ELSE {}) \cup
  (IF /\ text[k] = Quote /\ text[k + 1] = Quote
      /\ QuotesBefore(text, k) % 2 = 1 THEN {"escape"} ELSE {})

\* the producer delivers the next k characters as one fragment: the
\* TransformStream calls _transform
Deliver(k, abortIn) ==
  /\ ~closed
  /\ k \in 0..Len(source)
  /\ cuts' = cuts \cup (IF 0 < k /\ k < Len(source)
                        THEN CutKinds(input \o source, Len(input) + k)
                        ELSE {})
  /\ \E s \in {transform(Self(abortIn), options, SubSeq(source, 1, k))} :
       StreamBecomes(s)
  /\ source' = SubSeq(source, k + 1, Len(source))
  /\ input' = input \o SubSeq(source, 1, k)
  /\ UNCHANGED <<options, closed, tokLine, tokDelimiter, tokResult,
                 validation, result, collecting, settlement, writer,
                 written>>

\* the producer has delivered everything and closes the writable side: the
\* TransformStream calls _flush
End(abortIn) ==
  /\ ~closed
  /\ source = <<>>
  /\ \E s \in {flush(Self(abortIn), options)} : StreamBecomes(s)
  /\ closed' = TRUE
  /\ UNCHANGED <<options, source, input, cuts, tokLine, tokDelimiter,
                 tokResult, validation, result, collecting, settlement,
                 writer, written>>

\* a stream without cancellation signal
Write == \E k \in 0..MaxInput : Deliver(k, 0)
Close == End(0)

Init == InitWith(OptionsWith({FALSE}), TextsUpTo(Alphabet, MaxInput))
Next == Write \/ Close
Spec == Init /\ [][Next]_vars

\* a stream with a cancellation signal: the signal is aborted between two
\* calls, or by a listener during a call.  The abort event is dispatched
\* once, when the signal is aborted: a signal that was aborted before the
\* constructor added its listener never dispatches it to the stream
Abort ==
  /\ options.signal
  /\ ~options.signalAborted
  /\ ~aborted
  /\ aborted' = TRUE
  /\ UNCHANGED <<options, headers, lineNum, rowNum, buffer, bytesProcessed,
                 lastProgressRow, headersValidated, hasError, events, sink,
                 source, input, closed, cuts, handed,
                 tokLine, tokDelimiter, tokResult, validation, result,
                 collecting, settlement, writer, written>>
WriteCancellable ==
  \E k \in 0..MaxInputCancel, abortIn \in 0..MaxAbortIn :
    (options.signalAborted => abortIn = 0) /\ Deliver(k, abortIn)
CloseCancellable ==
  \E abortIn \in 0..MaxAbortIn :
    (options.signalAborted => abortIn = 0) /\ End(abortIn)

InitCancel == InitWith(OptionsWith({TRUE}), TextsUpTo(Alphabet, MaxInputCancel))
NextCancel == WriteCancellable \/ CloseCancellable \/ Abort
SpecCancel == InitCancel /\ [][NextCancel]_vars

\* progress reporting: streams without header list and without strict
\* columns, with the progress intervals 0..MaxInterval, fed lines of "a"
\* (some texts start with a three-byte U+FEFF)
MaxProgressInput == 7
MaxInterval == 2
MaxBomText == 3
TotalBytes == 7
ProgressOptions ==
  [delimiter : {Comma}, expectHeaders : BOOLEAN, headers : {Null},
   signal : {FALSE}, signalAborted : {FALSE},
   totalBytes : {Null, Some(TotalBytes)},
   progressInterval : 0..MaxInterval, strictColumns : {FALSE}]
ProgressTexts ==
  TextsUpTo({"a", LF}, MaxProgressInput)
    \cup {<<BOM>> \o t : t \in TextsUpTo({"a", LF}, MaxBomText)}
InitProgress == InitWith(ProgressOptions, ProgressTexts)
NextProgress == Write \/ Close
SpecProgress == InitProgress /\ [][NextProgress]_vars

\* header normalization: streams that capture or validate the header line,
\* fed texts with U+FEFF and spaces
MaxHeaderInput == 4
HeaderAlphabet == {"a", BOM, " ", Comma, LF}
HeaderOptions ==
  [delimiter : {Comma}, expectHeaders : {TRUE},
   headers : {Null, Some(SuppliedHeaders)},
   signal : {FALSE}, signalAborted : {FALSE}, totalBytes : {Null},
   progressInterval : {0}, strictColumns : {FALSE}]
InitHeaders == InitWith(HeaderOptions, TextsUpTo(HeaderAlphabet, MaxHeaderInput))
NextHeaders == Write \/ Close
SpecHeaders == InitHeaders /\ [][NextHeaders]_vars

\* fragmentation: streams of the four header modes, with and without strict
\* columns, with a progress event after every row, fed texts cut anywhere
MaxFragmentInput == 4
FragmentAlphabet == {"a", Comma, Quote, LF}
FragmentOptions ==
  [delimiter : {Comma}, expectHeaders : BOOLEAN,
   headers : {Null, Some(SuppliedHeaders)},
   signal : {FALSE}, signalAborted : {FALSE}, totalBytes : {Null},
   progressInterval : {1}, strictColumns : BOOLEAN]
InitFragments ==
  InitWith(FragmentOptions, TextsUpTo(FragmentAlphabet, MaxFragmentInput))
NextFragments == Write \/ Close
SpecFragments == InitFragments /\ [][NextFragments]_vars

\* rows under a header list that holds the name __proto__: streams
\* without header row, with the list ['__proto__', 'b'] or ['b']
MaxProtoInput == 4
ProtoAlphabet == {"a", Comma, LF}
ProtoHeaders == {<<ProtoName, <<"b">>>>, << <<"b">> >>}
ProtoOptions ==
  [delimiter : {Comma}, expectHeaders : {FALSE},
   headers : {Some(h) : h \in ProtoHeaders},
   signal : {FALSE}, signalAborted : {FALSE}, totalBytes : {Null},
   progressInterval : {0}, strictColumns : BOOLEAN]
InitProto == InitWith(ProtoOptions, TextsUpTo(ProtoAlphabet, MaxProtoInput))
NextProto == Write \/ Close
SpecProto == InitProto /\ [][NextProto]_vars

\* strict columns without headers: streams in numeric-keys mode, with and
\* without strictColumns
MaxStrictInput == 5
StrictAlphabet == {"a", Comma, Quote, LF}
StrictOptions ==
  [delimiter : {Comma}, expectHeaders : {FALSE}, headers : {Null},
   signal : {FALSE}, signalAborted : {FALSE}, totalBytes : {Null},
   progressInterval : {0}, strictColumns : BOOLEAN]
InitStrict == InitWith(StrictOptions, TextsUpTo(StrictAlphabet, MaxStrictInput))
NextStrict == Write \/ Close
SpecStrict == InitStrict /\ [][NextStrict]_vars

\* the tokenizer alone: one call of parseCsvLine on some line
TokAlphabet == {"a", Comma, ";", Quote, LF}
TokDelimiters == {Comma, ";"}

Tokenize ==
  /\ IsNull(tokResult)
  /\ tokResult' = Some(parseCsvLine(tokLine, tokDelimiter))
  /\ UNCHANGED <<options, headers, lineNum, rowNum, buffer, bytesProcessed,
                 lastProgressRow, aborted, headersValidated, hasError,
                 events, sink, source, input, closed, cuts, handed,
                 tokLine, tokDelimiter, validation, result,
                 collecting, settlement, writer, written>>

InitTok ==
  /\ options \in OptionsWith({FALSE})
  /\ options.expectHeaders /\ IsNull(options.headers)
  /\ ~options.strictColumns /\ options.progressInterval = 0
  /\ source = <<>>
  /\ StreamIs(New(options))
  /\ input = <<>>
  /\ closed = FALSE
  /\ cuts = {}
  /\ tokLine \in TextsUpTo(TokAlphabet, MaxLine)
  /\ tokDelimiter \in TokDelimiters
  /\ tokResult = Null
  /\ ValidateIdle
  /\ CollectIdle
  /\ WriterIdle
NextTok == Tokenize
SpecTok == InitTok /\ [][NextTok]_vars

(***************************************************************************)
(* validate (src/validate.ts) and the CSVStream it reads (src/stream.ts,   *)
(* the stream with the hasHeaders option).  validate is called without     *)
(* signal and without progress callback; the message of a fatal error is   *)
(* left out.                                                               *)
(***************************************************************************)
MaxValidateInput == 5
MaxMixedInput == 3
DEFAULT_MAX_INVALID_ROWS == 100

\* the header list passed as requiredHeaders
RequiredHeaders == << <<"a", " ">> >>
\* what a row callback returns: nothing, an empty list, a list of errors
Verdicts == {Null, Some(<<>>), Some(<<"e">>)}

\* String.prototype.split('\n')
RECURSIVE SplitLF(_)
SplitLF(s) ==
  LET lf == {i \in 1..Len(s) : s[i] = LF}
  IN IF lf = {} THEN <<s>>
     ELSE <<SubSeq(s, 1, Min(lf) - 1)>> \o SplitLF(SubSeq(s, Min(lf) + 1, Len(s)))

\* the locals of validate before the stream runs; calls lists the
\* invocations of the row callback with what it returned, reads counts the
\* rows consumeStream has read, looping tells that its loop has not ended
validateState(o) ==
  [rowCount |-> 0, invalidRowCount |-> 0, invalidRows |-> <<>>,
   fatalError |-> Null, canceled |-> FALSE,
   headersValidated |-> IsNull(o.requiredHeaders),
   calls |-> <<>>, reads |-> 0, looping |-> TRUE]

\* const maxInvalidRows
maxInvalidRowsOf(o) ==
  IF IsNull(o.maxInvalidRows) THEN DEFAULT_MAX_INVALID_ROWS
  ELSE Value(o.maxInvalidRows)

\* const requiredHeaders
requiredHeadersOf(o) ==
  IF IsNull(o.requiredHeaders) THEN Null
  ELSE Some([i \in 1..Len(Value(o.requiredHeaders)) |->
               normalizeHeader(Value(o.requiredHeaders)[i])])

\* makeResult
makeResult(st) ==
  [valid |-> IsNull(st.fatalError) /\ st.invalidRowCount = 0,
   rowCount |-> st.rowCount, invalidRowCount |-> st.invalidRowCount,
   invalidRows |-> st.invalidRows, fatalError |-> st.fatalError,
   canceled |-> st.canceled]

\* the listener of 'headers'
onHeaders(st, o, detail) ==
  IF ~IsNull(requiredHeadersOf(o)) THEN
    LET required == Value(requiredHeadersOf(o))
        normalizedHeaders == [i \in 1..Len(detail.headers) |->
                                normalizeHeader(detail.headers[i])]
        matches == /\ Len(required) = Len(normalizedHeaders)
                   /\ \A i \in 1..Len(required) : required[i] = normalizedHeaders[i]
    IN IF ~matches
       THEN [st EXCEPT !.fatalError = Some([type |-> "HEADER_MISMATCH",
                                            lineNum |-> detail.lineNum])]
       ELSE [st EXCEPT !.headersValidated = TRUE]
  ELSE st

\* the listener of 'csvrow' that does not look at the fatal error
onCsvrowAfterFatal(st, o, detail, verdicts) ==
  LET st1 == [st EXCEPT !.rowCount = @ + 1]
  IN IF o.onRow THEN
       LET errors == verdicts[detail.rowNum]
           st2 == [st1 EXCEPT !.calls = Append(@, [rowNum |-> detail.rowNum,
                                                   errors |-> errors])]
       IN IF ~IsNull(errors) /\ Len(Value(errors)) > 0
          THEN LET st3 == [st2 EXCEPT !.invalidRowCount = @ + 1]
               IN IF Len(st3.invalidRows) < maxInvalidRowsOf(o)
                  THEN [st3 EXCEPT !.invalidRows =
                          Append(@, [rowNum |-> detail.rowNum,
                                     errors |-> Value(errors),
                                     raw |-> detail.raw])]
                  ELSE st3
          ELSE st2
     ELSE st1

\* the listener of 'csvrow' that collects every invalid row
onCsvrowCollectsAll(st, o, detail, verdicts) ==
  IF ~IsNull(st.fatalError) \/ st.canceled THEN st
  ELSE
    LET st1 == [st EXCEPT !.rowCount = @ + 1]
    IN IF o.onRow THEN
         LET errors == verdicts[detail.rowNum]
             st2 == [st1 EXCEPT !.calls = Append(@, [rowNum |-> detail.rowNum,
                                                     errors |-> errors])]
         IN IF ~IsNull(errors) /\ Len(Value(errors)) > 0
            THEN [st2 EXCEPT !.invalidRowCount = @ + 1,
                             !.invalidRows = Append(@, [rowNum |-> detail.rowNum,
                                                        errors |-> Value(errors),
                                                        raw |-> detail.raw])]
            ELSE st2
       ELSE st1

\* the listener of 'csvrow'; verdicts[n] is what the row callback returns
\* for row n
onCsvrow(st, o, detail, verdicts) ==
  IF ~IsNull(st.fatalError) \/ st.canceled THEN st
  ELSE
    LET st1 == [st EXCEPT !.rowCount = @ + 1]
    IN IF o.onRow THEN
         LET errors == verdicts[detail.rowNum]
             st2 == [st1 EXCEPT !.calls = Append(@, [rowNum |-> detail.rowNum,
                                                     errors |-> errors])]
         IN IF ~IsNull(errors) /\ Len(Value(errors)) > 0
            THEN LET st3 == [st2 EXCEPT !.invalidRowCount = @ + 1]
                 IN IF Len(st3.invalidRows) < maxInvalidRowsOf(o)
                    THEN [st3 EXCEPT !.invalidRows =
                            Append(@, [rowNum |-> detail.rowNum,
                                       errors |-> Value(errors),
                                       raw |-> detail.raw])]
                    ELSE st3
            ELSE st2
       ELSE st1

\* the listener of 'error'
onError(st, detail) ==
  [st EXCEPT !.fatalError = Some([type |-> detail.type,
                                  lineNum |-> detail.lineNum])]

\* the listener of 'end'
onEnd(st) ==
  IF IsNull(st.fatalError) /\ st.rowCount = 0 /\ st.headersValidated
  THEN [st EXCEPT !.fatalError = Some([type |-> "NO_DATA_ROWS", lineNum |-> 1])]
  ELSE st

\* the options validate passes to streamCSV, with the defaults of the
\* constructor of the stream
streamOptions(o) ==
  [delimiter |-> IF IsNull(o.delimiter) THEN Comma ELSE Value(o.delimiter),
   hasHeaders |-> IF IsNull(o.hasHeaders) THEN TRUE ELSE Value(o.hasHeaders),
   headers |-> o.headers]

\* the constructor of the stream; v.validation is the state of the
\* listeners validate adds to it
streamNew(o) ==
  [headers |-> IF ~IsNull(streamOptions(o).headers)
               THEN Some([i \in 1..Len(Value(o.headers)) |->
                            normalizeHeader(Value(o.headers)[i])])
               ELSE Null,
   lineNum |-> 0, rowNum |-> 0, buffer |-> <<>>, aborted |-> FALSE,
   events |-> <<>>, sink |-> <<>>, validation |-> validateState(o)]

\* _emit: dispatchEvent runs the listener of validate synchronously
streamEmit(v, o, type, detail, verdicts) ==
  [v EXCEPT !.events = Append(@, [type |-> type, detail |-> detail]),
            !.validation =
               CASE type = "headers" -> onHeaders(@, o, detail)
                 [] type = "csvrow" -> onCsvrow(@, o, detail, verdicts)
                 [] type = "error" -> onError(@, detail)
                 [] type = "end" -> onEnd(@)]

\* _processLine
streamProcessLine(v0, o, rawLine, verdicts) ==
  LET v == [v0 EXCEPT !.lineNum = @ + 1]
      line == StripTrailingCR(rawLine)
      parsed == parseCsvLine(line, streamOptions(o).delimiter)
  IN IF Trim(line) = <<>> THEN v
     ELSE IF IsError(parsed) THEN
       streamEmit(v, o, "error",
                  [type |-> parsed.error, lineNum |-> v.lineNum, raw |-> line],
                  verdicts)
     ELSE IF IsNull(v.headers) /\ streamOptions(o).hasHeaders THEN
       LET h == [i \in 1..Len(parsed.fields) |->
                   IF i = 1 THEN normalizeHeader(parsed.fields[i])
                   ELSE Trim(parsed.fields[i])]
       IN streamEmit([v EXCEPT !.headers = Some(h)], o, "headers",
                     [headers |-> h, lineNum |-> v.lineNum], verdicts)
     ELSE
       LET v1 == [v EXCEPT !.rowNum = @ + 1]
           row == IF ~IsNull(v1.headers)
                  THEN rowWithHeaders(Value(v1.headers), parsed.fields)
                  ELSE parsed.fields
           v2 == streamEmit(v1, o, "csvrow",
                            [rowNum |-> v1.rowNum, fields |-> row, raw |-> line],
                            verdicts)
       IN [v2 EXCEPT !.sink = Append(@, row)]

\* the for loop of _processBuffer over the lines from index i on
RECURSIVE streamProcessLines(_, _, _, _, _)
streamProcessLines(v, o, lines, i, verdicts) ==
  IF i > Len(lines) \/ v.aborted THEN v
  ELSE streamProcessLines(streamProcessLine(v, o, lines[i], verdicts),
                          o, lines, i + 1, verdicts)

\* _processBuffer
streamProcessBuffer(v, o, verdicts) ==
  LET lines == SplitLF(v.buffer)
  IN streamProcessLines([v EXCEPT !.buffer = lines[Len(lines)]], o,
                        SubSeq(lines, 1, Len(lines) - 1), 1, verdicts)

\* _transform
streamTransform(v, o, chunk, verdicts) ==
  IF v.aborted THEN v
  ELSE streamProcessBuffer([v EXCEPT !.buffer = @ \o chunk], o, verdicts)

\* _flush
streamFlush(v, o, verdicts) ==
  IF v.aborted THEN v
  ELSE
    LET v1 == IF Len(v.buffer) > 0
              THEN [streamProcessLine(v, o, v.buffer, verdicts)
                      EXCEPT !.buffer = <<>>]
              ELSE v
    IN streamEmit(v1, o, "end",
                  [totalRows |-> v1.rowNum, totalLines |-> v1.lineNum], verdicts)

\* the fields of the stream and the locals of validate, as one record
ValidateSelf ==
  [headers |-> headers, lineNum |-> lineNum, rowNum |-> rowNum,
   buffer |-> buffer, aborted |-> aborted, events |-> events, sink |-> sink,
   validation |-> validation]
ValidateIs(v) ==
  /\ headers = v.headers
  /\ lineNum = v.lineNum
  /\ rowNum = v.rowNum
  /\ buffer = v.buffer
  /\ aborted = v.aborted
  /\ events = v.events
  /\ sink = v.sink
  /\ validation = v.validation
ValidateBecomes(v) ==
  /\ headers' = v.headers
  /\ lineNum' = v.lineNum
  /\ rowNum' = v.rowNum
  /\ buffer' = v.buffer
  /\ aborted' = v.aborted
  /\ events' = v.events
  /\ sink' = v.sink
  /\ validation' = v.validation

\* the calls of validate: with or without row callback (onRow), every
\* option absent or present
ValidateOptions ==
  [delimiter : {Null}, hasHeaders : {Null, Some(FALSE)},
   headers : {Null, Some(SuppliedHeaders)},
   requiredHeaders : {Null, Some(RequiredHeaders)},
   maxInvalidRows : {Null, Some(0), Some(1)}, onRow : BOOLEAN]
\* the inputs: lines of "a", and short texts with delimiters and quotes
ValidateTexts ==
  TextsUpTo({"a", LF}, MaxValidateInput)
    \cup TextsUpTo({"a", Comma, Quote, LF}, MaxMixedInput)

\* what the row callback returns for the rows a text can add to the n rows
\* so far: at most one per line feed, and one more at the end of the input
VerdictsFor(n, text, atEnd) ==
  [(n + 1)..(n + Cardinality({i \in 1..Len(text) : text[i] = LF})
               + (IF atEnd THEN 1 ELSE 0)) -> Verdicts]

\* validate is called: streamCSV builds the stream and starts the pipe
InitValidate ==
  /\ options \in ValidateOptions
  /\ source \in ValidateTexts
  /\ ValidateIs(streamNew(options))
  /\ result = Null
  /\ bytesProcessed = 0
  /\ lastProgressRow = 0
  /\ headersValidated = FALSE
  /\ hasError = FALSE
  /\ handed = <<>>
  /\ input = <<>>
  /\ closed = FALSE
  /\ cuts = {}
  /\ TokIdle
  /\ CollectIdle
  /\ WriterIdle

\* the pipe writes the next k characters of the input as one chunk: the
\* TransformStream calls _transform, the listeners of validate run
ValidateWrite ==
  \E k \in 1..MaxValidateInput :
    /\ ~closed
    /\ k <= Len(source)
    /\ \E verdicts \in VerdictsFor(rowNum, SubSeq(source, 1, k), FALSE) :
         \E v \in {streamTransform(ValidateSelf, options, SubSeq(source, 1, k),
                                   verdicts)} :
           ValidateBecomes(v)
    /\ source' = SubSeq(source, k + 1, Len(source))
    /\ input' = input \o SubSeq(source, 1, k)
    /\ UNCHANGED <<options, closed, cuts, result, bytesProcessed,
                   lastProgressRow, headersValidated, hasError, handed,
                   tokLine, tokDelimiter, tokResult,
                   collecting, settlement, writer, written>>

\* one turn of the loop of consumeStream, which goes on after validate
\* has resolved: a read resolves with a row, or with done once the stream
\* is closed and its rows are read; the loop ends at done and when a fatal
\* error is recorded, which resolves the promise of consumeStream
ValidateRead ==
  /\ validation.looping
  /\ \/ /\ validation.reads < Len(sink)
        /\ validation' =
             [validation EXCEPT
                !.reads = @ + 1,
                !.looping = IsNull(validation.fatalError) /\ ~validation.canceled]
     \/ /\ closed
        /\ validation.reads = Len(sink)
        /\ validation' = [validation EXCEPT !.looping = FALSE]
  /\ UNCHANGED <<options, headers, lineNum, rowNum, buffer, bytesProcessed,
                 lastProgressRow, aborted, headersValidated, hasError,
                 events, sink, source, input, closed, cuts, handed, result,
                 tokLine, tokDelimiter, tokResult,
                 collecting, settlement, writer, written>>

\* the pipe closes the writable side: the TransformStream calls _flush,
\* which processes the last line and dispatches 'end'; the 'end' listener
\* resolves endPromise
ValidateClose ==
  /\ ~closed
  /\ source = <<>>
  /\ \E verdicts \in VerdictsFor(rowNum, <<>>, TRUE) :
       \E v \in {streamFlush(ValidateSelf, options, verdicts)} :
         ValidateBecomes(v)
  /\ closed' = TRUE
  /\ UNCHANGED <<options, source, input, cuts, result, bytesProcessed,
                 lastProgressRow, headersValidated, hasError, handed,
                 tokLine, tokDelimiter, tokResult,
                 collecting, settlement, writer, written>>

\* the await of the race goes on, microtasks after endPromise was
\* resolved by the 'end' listener or the loop of consumeStream ended, and
\* validate resolves with makeResult()
ValidateReturn ==
  /\ IsNull(result)
  /\ \/ \E i \in 1..Len(events) : events[i].type = "end"
     \/ ~validation.looping
  /\ result' = Some(makeResult(validation))
  /\ UNCHANGED <<options, headers, lineNum, rowNum, buffer, bytesProcessed,
                 lastProgressRow, aborted, headersValidated, hasError,
                 events, sink, source, input, closed, cuts, handed,
                 validation, tokLine, tokDelimiter, tokResult,
                 collecting, settlement, writer, written>>

NextValidate == ValidateWrite \/ ValidateRead \/ ValidateClose \/ ValidateReturn
SpecValidate == InitValidate /\ [][NextValidate]_vars

(***************************************************************************)
(* collect (unnamed/part_001) on a CSVStream.  The reducer callback        *)
(* appends the row to the list it is given, or throws.                     *)
(***************************************************************************)
MaxCollectInput == 4
CollectAlphabet == {"a", Comma, Quote, LF}
\* what the reducer callback does with a row: it returns the new list, it
\* throws an Error, it throws null
Outcomes == {"return", "throwError", "throwNull"}
\* the value caught when the callback throws
Thrown(outcome) == IF outcome = "throwError" THEN Some("Error") ELSE Null

\* the locals of collect before the reader runs; calls lists the
\* invocations of the callback with what it did, reads counts the rows the
\* reader has read
collectState ==
  [accumulated |-> <<>>, userError |-> Null, streamError |-> Null,
   calls |-> <<>>, reads |-> 0]

\* the listener of 'csvrow'; outcomes[n] is what the callback does with row
\* n.  A caught null leaves userError null
onCollectRow(c, detail, outcomes) ==
  IF ~IsNull(c.userError) \/ ~IsNull(c.streamError) THEN c
  ELSE
    LET outcome == outcomes[detail.rowNum]
        c1 == [c EXCEPT !.calls = Append(@, [rowNum |-> detail.rowNum,
                                             outcome |-> outcome])]
    IN IF outcome = "return"
       THEN [c1 EXCEPT !.accumulated = Append(@, detail.fields)]
       ELSE [c1 EXCEPT !.userError = Thrown(outcome)]

\* the listener of 'error'
onCollectError(c, detail) == [c EXCEPT !.streamError = Some(detail)]

\* the listeners of collect run on the events evs in the order in which the
\* stream dispatches them (they do not act on the stream)
RECURSIVE collectListeners(_, _, _)
collectListeners(c, evs, outcomes) ==
  IF evs = <<>> THEN c
  ELSE collectListeners(
         CASE Head(evs).type = "csvrow" ->
                onCollectRow(c, Head(evs).detail, outcomes)
           [] Head(evs).type = "error" -> onCollectError(c, Head(evs).detail)
           [] OTHER -> c,
         Tail(evs), outcomes)

\* the end of collect after the loop of the reader: how the promise settles
settle(c) ==
  IF ~IsNull(c.streamError)
  THEN [kind |-> "CSVStreamError",
        error |-> Some([type |-> Value(c.streamError).type,
                        lineNum |-> Value(c.streamError).lineNum]),
        value |-> Null]
  ELSE IF ~IsNull(c.userError)
  THEN [kind |-> "CollectAbortError",
        error |-> Some([originalError |-> Value(c.userError)]),
        value |-> Null]
  ELSE [kind |-> "resolved", error |-> Null, value |-> Some(c.accumulated)]

CollectOptions ==
  [delimiter : {Comma}, expectHeaders : BOOLEAN,
   headers : {Null, Some(SuppliedHeaders)},
   signal : {FALSE}, signalAborted : {FALSE}, totalBytes : {Null},
   progressInterval : {0}, strictColumns : BOOLEAN]

\* what the callback does with the rows a text can add to the n rows so far
OutcomesFor(n, text, atEnd) ==
  [(n + 1)..(n + Cardinality({i \in 1..Len(text) : text[i] = LF})
               + (IF atEnd THEN 1 ELSE 0)) -> Outcomes]

\* collect is called on a new stream: the listeners are added, the reader
\* issues its first read
InitCollect ==
  /\ options \in CollectOptions
  /\ source \in TextsUpTo(CollectAlphabet, MaxCollectInput)
  /\ StreamIs(New(options))
  /\ input = <<>>
  /\ closed = FALSE
  /\ cuts = {}
  /\ TokIdle
  /\ ValidateIdle
  /\ WriterIdle
  /\ collecting = collectState
  /\ settlement = Null

\* the next k characters are written as one chunk.  The TransformStream
\* calls _transform only while a read of the reader is pending on an empty
\* queue; the listeners of collect run during the call
CollectWrite ==
  \E k \in 1..MaxCollectInput :
    /\ ~closed
    /\ k <= Len(source)
    /\ IsNull(settlement)
    /\ collecting.reads = Len(sink)
    /\ \E s \in {transform(Self(0), options, SubSeq(source, 1, k))} :
         /\ StreamBecomes(s)
         /\ \E outcomes \in OutcomesFor(rowNum, SubSeq(source, 1, k), FALSE) :
              collecting' = collectListeners(
                              collecting,
                              SubSeq(s.events, Len(events) + 1, Len(s.events)),
                              outcomes)
    /\ source' = SubSeq(source, k + 1, Len(source))
    /\ input' = input \o SubSeq(source, 1, k)
    /\ UNCHANGED <<options, closed, cuts, settlement, tokLine, tokDelimiter,
                   tokResult, validation, result, writer, written>>

\* one turn of the loop of the reader: a read resolves with a row; the
\* loop ends, and collect settles, when an error is recorded
CollectRead ==
  /\ IsNull(settlement)
  /\ collecting.reads < Len(sink)
  /\ collecting' = [collecting EXCEPT !.reads = @ + 1]
  /\ settlement' = IF ~IsNull(collecting.userError) \/ ~IsNull(collecting.streamError)
                   THEN Some([outcome |-> settle(collecting),
                              seen |-> Len(events)])
                   ELSE settlement
  /\ UNCHANGED <<options, headers, lineNum, rowNum, buffer, bytesProcessed,
                 lastProgressRow, aborted, headersValidated, hasError,
                 events, sink, source, input, closed, cuts, handed,
                 tokLine, tokDelimiter, tokResult, validation, result,
                 writer, written>>

\* the writable side is closed: the TransformStream calls _flush, the
\* listeners of collect run during the call
CollectClose ==
  /\ ~closed
  /\ source = <<>>
  /\ \E s \in {flush(Self(0), options)} :
       /\ StreamBecomes(s)
       /\ \E outcomes \in OutcomesFor(rowNum, <<>>, TRUE) :
            collecting' = collectListeners(
                            collecting,
                            SubSeq(s.events, Len(events) + 1, Len(s.events)),
                            outcomes)
  /\ closed' = TRUE
  /\ UNCHANGED <<options, source, input, cuts, settlement, tokLine,
                 tokDelimiter, tokResult, validation, result, writer, written>>

\* the last turn of the loop of the reader: the readable side is closed and
\* its queue is empty, the read resolves with done, and collect settles
CollectDone ==
  /\ IsNull(settlement)
  /\ closed
  /\ collecting.reads = Len(sink)
  /\ settlement' = Some([outcome |-> settle(collecting), seen |-> Len(events)])
  /\ UNCHANGED <<options, headers, lineNum, rowNum, buffer, bytesProcessed,
                 lastProgressRow, aborted, headersValidated, hasError,
                 events, sink, source, input, closed, cuts, handed,
                 tokLine, tokDelimiter, tokResult, validation, result,
                 collecting, writer, written>>

NextCollect == CollectWrite \/ CollectRead \/ CollectClose \/ CollectDone
SpecCollect == InitCollect /\ [][NextCollect]_vars

(***************************************************************************)
(* The writer (unnamed/part_005): escapeField, rowToLine and the stream of *)
(* createCSVWriteStream.  A row is an array of strings, or an object with  *)
(* its keys in insertion order.                                            *)
(***************************************************************************)
MaxWritten == 3
MaxRowLen == 4

ArrayRow(values) == [isArray |-> TRUE, keys |-> <<>>, values |-> values]
ObjectRow(keys, values) == [isArray |-> FALSE, keys |-> keys, values |-> values]

\* str.replace(/"/g, '""')
RECURSIVE DoubleQuotes(_)
DoubleQuotes(str) ==
  IF str = <<>> THEN <<>>
  ELSE (IF Head(str) = Quote THEN <<Quote, Quote>> ELSE <<Head(str)>>)
         \o DoubleQuotes(Tail(str))

\* str.includes(c) for a character c
Includes(str, c) == \E i \in 1..Len(str) : str[i] = c

\* escapeField that quotes only when asked to quote every field
escapeFieldOnlyQuoteAll(value, delimiter, quoteAll) ==
  IF quoteAll THEN <<Quote>> \o DoubleQuotes(value) \o <<Quote>> ELSE value

\* escapeField of a string value
escapeField(value, delimiter, quoteAll) ==
  LET needsQuoting == \/ quoteAll
                      \/ Includes(value, delimiter)
                      \/ Includes(value, Quote)
                      \/ Includes(value, LF)
                      \/ Includes(value, CR)
  IN IF needsQuoting THEN <<Quote>> \o DoubleQuotes(value) \o <<Quote>>
     ELSE value

\* Array.prototype.join(delimiter) for a one-character delimiter
RECURSIVE Join(_, _)
Join(strs, delimiter) ==
  IF strs = <<>> THEN <<>>
  ELSE IF Len(strs) = 1 THEN strs[1]
  ELSE strs[1] \o <<delimiter>> \o Join(Tail(strs), delimiter)

\* row[h]: the value of a key of an object row, undefined becoming ''
ValueOf(row, h) ==
  IF \E i \in 1..Len(row.keys) : row.keys[i] = h
  THEN row.values[CHOOSE i \in 1..Len(row.keys) : row.keys[i] = h]
  ELSE <<>>

\* rowToLine; h is the header list, <<>> when undefined
rowToLine(row, h, delimiter, quoteAll) ==
  IF row.isArray
  THEN Join([i \in 1..Len(row.values) |->
               escapeField(row.values[i], delimiter, quoteAll)], delimiter)
  ELSE LET names == IF IsNull(h) THEN row.keys ELSE Value(h)
       IN Join([i \in 1..Len(names) |->
                  escapeField(ValueOf(row, names[i]), delimiter, quoteAll)],
               delimiter)

\* the options of the writer with their defaults
writerDelimiter(o) == IF IsNull(o.delimiter) THEN Comma ELSE Value(o.delimiter)
writerLineEnding(o) == IF IsNull(o.lineEnding) THEN <<CR, LF>> ELSE Value(o.lineEnding)
writerQuoteAll(o) == IF IsNull(o.quoteAll) THEN FALSE ELSE Value(o.quoteAll)
writerIncludeHeaders(o) ==
  IF IsNull(o.includeHeaders) THEN TRUE ELSE Value(o.includeHeaders)

\* createCSVWriteStream: the locals of the closure; output lists the chunks
\* enqueued, each with the kind of line it was built as
writeStreamNew(o) ==
  [headers |-> o.headers, headersSent |-> FALSE, output |-> <<>>]

\* the transform callback of the stream of createCSVWriteStream
writeStreamTransform(w, o, row) ==
  LET h == IF IsNull(w.headers) /\ ~row.isArray THEN Some(row.keys)
           ELSE w.headers
      w1 == [w EXCEPT !.headers = h]
      w2 == IF writerIncludeHeaders(o) /\ ~IsNull(h) /\ ~w1.headersSent
            THEN [w1 EXCEPT
                    !.output = Append(@,
                       [line |-> "header",
                        chunk |-> Join([i \in 1..Len(Value(h)) |->
                                          escapeField(Value(h)[i],
                                                      writerDelimiter(o),
                                                      writerQuoteAll(o))],
                                       writerDelimiter(o))
                                    \o writerLineEnding(o)]),
                    !.headersSent = TRUE]
            ELSE w1
  IN [w2 EXCEPT !.output = Append(@,
        [line |-> "data",
         chunk |-> rowToLine(row, h, writerDelimiter(o), writerQuoteAll(o))
                     \o writerLineEnding(o)])]

\* no CSVStream exists
StreamIdle ==
  /\ headers = Null
  /\ lineNum = 0
  /\ rowNum = 0
  /\ buffer = <<>>
  /\ bytesProcessed = 0
  /\ lastProgressRow = 0
  /\ aborted = FALSE
  /\ headersValidated = FALSE
  /\ hasError = FALSE
  /\ events = <<>>
  /\ sink = <<>>
  /\ handed = <<>>
  /\ source = <<>>
  /\ input = <<>>
  /\ closed = FALSE
  /\ cuts = {}

\* the writer streams: with or without header list, header line, quoteAll
WriterOptions ==
  [delimiter : {Null}, lineEnding : {Null}, quoteAll : {Null, Some(TRUE)},
   headers : {Null, Some(<< <<"k">>, <<"h">> >>)},
   includeHeaders : {Null, Some(FALSE)}]
\* the rows written: arrays of one or two fields, objects of one or two keys
WriteRows ==
  {ArrayRow(<< <<"x">> >>), ArrayRow(<< <<"x">>, <<"y", Comma>> >>),
   ObjectRow(<< <<"k">> >>, << <<"1">> >>),
   ObjectRow(<< <<"h">>, <<"k">> >>, << <<Quote>>, <<"2">> >>)}

InitWriter ==
  /\ options \in WriterOptions
  /\ writer = writeStreamNew(options)
  /\ written = <<>>
  /\ StreamIdle
  /\ TokIdle
  /\ ValidateIdle
  /\ CollectIdle

\* a row is written to the writable side: the TransformStream calls transform
WriterWrite ==
  /\ Len(written) < MaxWritten
  /\ \E row \in WriteRows :
       /\ writer' = writeStreamTransform(writer, options, row)
       /\ written' = Append(written, row)
  /\ UNCHANGED <<options, headers, lineNum, rowNum, buffer, bytesProcessed,
                 lastProgressRow, aborted, headersValidated, hasError,
                 events, sink, source, input, closed, cuts, handed,
                 tokLine, tokDelimiter, tokResult, validation, result,
                 collecting, settlement>>

NextWriter == WriterWrite
SpecWriter == InitWriter /\ [][NextWriter]_vars

\* the round trip: one row of string fields is formatted by rowToLine and
\* the line is tokenized by parseCsvLine
RoundTripAlphabet == {"a", Comma, ";", Quote, CR, LF}
RoundTripDelimiters == {Comma, ";", "a"}
\* the lists of fields: the pieces of a text between its field marks (one
\* field without mark, and so on), the marks and the characters of the
\* fields being MaxRowLen at most
FieldMark == "next field"
RECURSIVE FieldsBetweenMarks(_)
FieldsBetweenMarks(text) ==
  LET marks == {i \in 1..Len(text) : text[i] = FieldMark}
  IN IF marks = {} THEN <<text>>
     ELSE <<SubSeq(text, 1, Min(marks) - 1)>>
            \o FieldsBetweenMarks(SubSeq(text, Min(marks) + 1, Len(text)))
RoundTripFields ==
  {FieldsBetweenMarks(t) :
     t \in TextsUpTo(RoundTripAlphabet \cup {FieldMark}, MaxRowLen)}

InitRoundTrip ==
  /\ options \in [delimiter : {Some(c) : c \in RoundTripDelimiters},
                  lineEnding : {Null}, quoteAll : {Null, Some(TRUE)},
                  headers : {Null}, includeHeaders : {Null}]
  /\ \E fields \in RoundTripFields : written = <<ArrayRow(fields)>>
  /\ writer = Null
  /\ StreamIdle
  /\ TokIdle
  /\ ValidateIdle
  /\ CollectIdle

\* rowToLine, then parseCsvLine with the same delimiter
RoundTrip ==
  /\ IsNull(tokResult)
  /\ \E line \in {rowToLine(written[1], Null, writerDelimiter(options),
                            writerQuoteAll(options))} :
       /\ tokLine' = line
       /\ tokResult' = Some(parseCsvLine(line, writerDelimiter(options)))
  /\ tokDelimiter' = writerDelimiter(options)
  /\ UNCHANGED <<options, headers, lineNum, rowNum, buffer, bytesProcessed,
                 lastProgressRow, aborted, headersValidated, hasError,
                 events, sink, source, input, closed, cuts, handed,
                 validation, result, collecting, settlement, writer, written>>

NextRoundTrip == RoundTrip
SpecRoundTrip == InitRoundTrip /\ [][NextRoundTrip]_vars

(***************************************************************************)
(* Definitions the properties are stated with.  They describe the input    *)
(* text and the events, and do not use the parser's operators.             *)
(***************************************************************************)
\* index i of text lies inside a quoted region: an odd number of quote
\* characters precedes it
InsideQuotes(text, i) == QuotesBefore(text, i) % 2 = 1

\* the indices of the line terminators of text outside quoted regions
Terminators(text) ==
  {i \in 1..Len(text) : text[i] = LF /\ ~InsideQuotes(text, i)}

\* the k-th smallest element of a set of integers
Kth(S, k) == CHOOSE i \in S : Cardinality({j \in S : j < i}) = k - 1

\* the logical lines of text that end with a terminator, without it
TerminatedLines(text) ==
  LET T == Terminators(text)
  IN [k \in 1..Cardinality(T) |->
        SubSeq(text, IF k = 1 THEN 1 ELSE Kth(T, k - 1) + 1, Kth(T, k) - 1)]

\* the text after the last terminator outside quoted regions
Unterminated(text) ==
  LET T == Terminators(text)
  IN IF T = {} THEN text ELSE SubSeq(text, Max(T) + 1, Len(text))

\* the logical lines of text; at the end of the input a non-empty
\* unterminated rest is the last logical line
LogicalLines(text, atEnd) ==
  IF atEnd /\ Unterminated(text) # <<>>
  THEN Append(TerminatedLines(text), Unterminated(text))
  ELSE TerminatedLines(text)

IsPrefix(a, b) == Len(a) <= Len(b) /\ a = SubSeq(b, 1, Len(a))

\* the number of occurrences of character c in text
Count(text, c) == Cardinality({i \in 1..Len(text) : text[i] = c})

\* the number of occurrences of character c in a list of texts
RECURSIVE CountAll(_, _)
CountAll(texts, c) ==
  IF texts = <<>> THEN 0 ELSE Count(Head(texts), c) + CountAll(Tail(texts), c)

\* a logical line is blank: nothing but whitespace
IsBlank(rawLine) == \A i \in 1..Len(rawLine) : IsWhitespace(rawLine[i])

\* the quotes of a logical line are balanced
IsBalanced(rawLine) == Count(rawLine, Quote) % 2 = 0

\* the events of one type, in order
RECURSIVE OfType(_, _)
OfType(evs, type) ==
  IF evs = <<>> THEN <<>>
  ELSE IF Head(evs).type = type
  THEN <<Head(evs)>> \o OfType(Tail(evs), type)
  ELSE OfType(Tail(evs), type)

\* the details of the csvrow events, in order
RowReady(evs) ==
  LET rows == OfType(evs, "csvrow") IN [i \in 1..Len(rows) |-> rows[i].detail]

\* the indices of the events of one type
Indices(evs, type) == {i \in 1..Len(evs) : evs[i].type = type}

(***************************************************************************)
(* C1..C10                                                                 *)
(***************************************************************************)
\* the stream that received the whole text delivered so far as one fragment
\* (and the end signal, when the writable side was closed)
OneFragment ==
  LET s == transform(New(options), options, input)
  IN IF closed THEN flush(s, options) ELSE s

\* C1: fragmentation invariance.  However the text delivered so far was cut
\* into fragments, the csvrow events emitted (rowNum, mapping, raw line,
\* field list) are those of the stream that received the same text as one
\* fragment.
C1_FragmentationInvariance == RowReady(events) = RowReady(OneFragment.events)

\* C1 witness: the input was closed after fragments cut between a CR and
\* its LF and inside a quoted region, and a row with a quoted field was
\* emitted.
C1_Witness ==
  /\ closed
  /\ {"crlf", "quoted"} \subseteq cuts
  /\ \E i \in Indices(events, "csvrow") : Count(events[i].detail.raw, Quote) > 0

\* C2: a line terminator inside a quoted region never ends a logical line.
\* Every line the scanner hands over ends at a terminator outside quoted
\* regions, so its quotes are balanced; the lines handed over are the
\* logical lines of the input, in order; and every line terminator of a
\* row's raw line is found in one of its field values.
C2_QuotedNewlineKeepsLine ==
  /\ IsPrefix(handed, LogicalLines(input, closed))
  /\ ~hasError => handed = LogicalLines(input, closed)
  /\ \A k \in 1..Len(handed) :
       (k <= Cardinality(Terminators(input))) => IsBalanced(handed[k])
  /\ \A i \in Indices(events, "csvrow") :
       LET row == events[i].detail
       IN /\ \A j \in 1..Len(row.raw) :
               row.raw[j] = LF => InsideQuotes(row.raw, j)
          /\ Count(row.raw, LF) = CountAll(row.fieldsArray, LF)

\* C2 witness: a row was emitted with a field value that contains a line
\* terminator, from a text that was cut inside the quoted region.
C2_Witness ==
  /\ "quoted" \in cuts
  /\ \E i \in Indices(events, "csvrow") :
       \E j \in 1..Len(events[i].detail.fieldsArray) :
         Count(events[i].detail.fieldsArray[j], LF) > 0

\* The reference tokenizer: an automaton that reads the line once, without
\* looking ahead.  Outside quotes ("out") a quote opens a quoted region;
\* inside ("in") a quote is remembered ("quote"): followed by a second
\* quote it is one literal quote, otherwise it closed the region.
RECURSIVE RefScan(_, _, _, _, _)
RefScan(rest, delimiter, state, fields, current) ==
  IF rest = <<>> THEN [state |-> state, fields |-> fields, current |-> current]
  ELSE LET c == Head(rest) IN
    CASE state = "in" /\ c = Quote ->
           RefScan(Tail(rest), delimiter, "quote", fields, current)
      [] state = "in" /\ c # Quote ->
           RefScan(Tail(rest), delimiter, "in", fields, Append(current, c))
      [] state = "quote" /\ c = Quote ->
           RefScan(Tail(rest), delimiter, "in", fields, Append(current, Quote))
      [] state # "in" /\ c = delimiter /\ c # Quote ->
           RefScan(Tail(rest), delimiter, "out", Append(fields, current), <<>>)
      [] state = "out" /\ c = Quote ->
           RefScan(Tail(rest), delimiter, "in", fields, current)
      [] OTHER ->
           RefScan(Tail(rest), delimiter, "out", fields, Append(current, c))

RefTokenize(line, delimiter) ==
  LET end == RefScan(line, delimiter, "out", <<>>, <<>>)
  IN IF end.state = "in"
     THEN [error |-> "UNBALANCED_QUOTES"]
     ELSE [fields |-> Append(end.fields, end.current)]

\* the indices of the delimiters of a line outside quoted regions
UnquotedDelimiters(line, delimiter) ==
  {i \in 1..Len(line) : line[i] = delimiter /\ ~InsideQuotes(line, i)}

\* C3: parseCsvLine agrees with the reference tokenizer on every line and
\* delimiter; a successful result has one field more than the line has
\* delimiters outside quotes; the empty line yields the single field "";
\* two consecutive delimiters outside quotes yield an empty field.
C3_TokenizerMatchesReference ==
  ~IsNull(tokResult) =>
    LET r == Value(tokResult)
        D == UnquotedDelimiters(tokLine, tokDelimiter)
    IN /\ r = RefTokenize(tokLine, tokDelimiter)
       /\ ~IsError(r) =>
            /\ Len(r.fields) = Cardinality(D) + 1
            /\ tokLine = <<>> => r.fields = << <<>> >>
            /\ \A i \in D : (i + 1) \in D =>
                 r.fields[Cardinality({j \in D : j <= i}) + 1] = <<>>

\* C3 witness: a line was tokenized into two fields, one of them holding a
\* literal quote written as an escaped quote.
C3_Witness ==
  /\ ~IsNull(tokResult)
  /\ ~IsError(Value(tokResult))
  /\ Len(Value(tokResult).fields) = 2
  /\ \E i \in 1..2 : Count(Value(tokResult).fields[i], Quote) = 1

\* C4: parseCsvLine returns the UNBALANCED_QUOTES error exactly when the
\* line ends inside a quoted region, that is when the inQuotes flag is set
\* at the end of the loop; otherwise it returns a field list and no error.
C4_UnbalancedQuotesIffInsideAtEnd ==
  ~IsNull(tokResult) =>
    LET r == Value(tokResult)
        insideAtEnd == InsideQuotes(tokLine, Len(tokLine) + 1)
    IN /\ IsError(r) <=> insideAtEnd
       /\ insideAtEnd <=>
            parseLoop(tokLine, tokDelimiter, 1, <<>>, <<>>, FALSE).inQuotes
       /\ IsError(r) => r = [error |-> "UNBALANCED_QUOTES"]
       /\ ~IsError(r) => DOMAIN r = {"fields"}

\* C4 witness: a line with a closed quoted field and a quoted field left
\* open was tokenized, with the error as result.
C4_Witness ==
  /\ ~IsNull(tokResult)
  /\ IsError(Value(tokResult))
  /\ Count(tokLine, Quote) = 3
  /\ UnquotedDelimiters(tokLine, tokDelimiter) # {}

\* C5: the line counter counts the logical lines handed to the pipeline,
\* once each, blank lines and the header line included, and a line with
\* line terminators inside quotes once: it is the number of lines handed
\* over, and while no error has halted the stream that is the number of
\* logical lines of the input delivered so far.
C5_LineCounter ==
  /\ lineNum = Len(handed)
  /\ ~hasError =>
       lineNum = Cardinality(Terminators(input))
                 + (IF closed /\ Unterminated(input) # <<>> THEN 1 ELSE 0)
  /\ hasError => lineNum <= Len(LogicalLines(input, closed))

\* C5 witness: three lines were counted, among them the header line, a
\* blank line and an unterminated last line.
C5_Witness ==
  /\ lineNum = 3
  /\ closed /\ Unterminated(input) # <<>>
  /\ \E k \in 1..Len(handed) : IsBlank(handed[k])
  /\ Indices(events, "headers") # {}

\* the lines handed over that are not blank
NonBlankLines == {k \in 1..Len(handed) : ~IsBlank(handed[k])}

\* the number of lines consumed as the header row: the first line that
\* reaches the header row logic, when a header row is expected
HeaderLines ==
  IF options.expectHeaders /\ \E k \in NonBlankLines : IsBalanced(handed[k])
  THEN 1 ELSE 0

\* C6 as claimed: the row counter is the number of non-blank logical lines
\* processed that were not consumed as the header row.
C6_Claimed_RowCounter == rowNum = Cardinality(NonBlankLines) - HeaderLines

\* C6 as amended: the row counter is the number of non-blank logical lines
\* processed that were tokenized without error and were not consumed as the
\* header row.
C6_RowCounter ==
  rowNum = Cardinality({k \in NonBlankLines : IsBalanced(handed[k])}) - HeaderLines

\* C6 witness: a header line, a blank line and a data line were processed,
\* and the row counter is 1.
C6_Witness ==
  /\ rowNum = 1
  /\ Len(handed) = 3
  /\ \E k \in 1..Len(handed) : IsBlank(handed[k])
  /\ Indices(events, "headers") # {}

\* the error events of a strict column violation
ColumnCountErrors ==
  {i \in Indices(events, "error") : "columns" \in DOMAIN events[i].detail.message}

\* C7 as claimed: after a strict column error the row counter still is the
\* number of csvrow events emitted, and the suppressed row was neither
\* emitted nor forwarded.
C7_Claimed_SuppressedRowNotCounted ==
  ColumnCountErrors # {} =>
    /\ rowNum = Cardinality(Indices(events, "csvrow"))
    /\ Len(sink) = Cardinality(Indices(events, "csvrow"))
    /\ \A i \in ColumnCountErrors : \A j \in Indices(events, "csvrow") :
         events[j].detail.rowNum # events[i].detail.message.row

\* the state part of C8: an error event was dispatched exactly when
\* _hasError is set; it is the only one; the line it reports is the last
\* line handed over; no headers, csvrow or progress event follows it; and
\* every row forwarded to the sink belongs to a csvrow event
HaltedAtError ==
  /\ hasError <=> Indices(events, "error") # {}
  /\ hasError =>
       /\ Cardinality(Indices(events, "error")) = 1
       /\ \A e \in Indices(events, "error") :
            /\ events[e].detail.lineNum = lineNum
            /\ lineNum = Len(handed)
            /\ \A i \in (e + 1)..Len(events) : events[i].type = "end"
       /\ sink = [i \in 1..Len(RowReady(events)) |-> RowReady(events)[i].fields]

\* the step part of C8: a step from a state with _hasError set emits
\* nothing, forwards nothing, hands no line to the tokenizer and leaves the
\* counters alone
NothingAfterError ==
  hasError => UNCHANGED <<events, sink, handed, lineNum, rowNum, hasError>>

\* C8: terminal errors halt the pipeline.  Once an error event has been
\* emitted no further line is tokenized, no headers, csvrow, progress or
\* second error event is emitted, nothing more is forwarded to the sink and
\* the line and row counters stay, whatever fragments or end signal follow,
\* also for the lines buffered in the fragment of the offending line.
C8_ErrorHalts == [](HaltedAtError) /\ [][NothingAfterError]_vars

\* C8 witness: the stream halted at an error, was closed, and a complete
\* non-blank line that followed the offending line was never processed.
C8_Witness ==
  /\ hasError
  /\ closed
  /\ \E k \in (Len(handed) + 1)..Cardinality(Terminators(input)) :
       ~IsBlank(TerminatedLines(input)[k])

\* C9 as claimed: no end event is emitted after an error event.
C9_Claimed_NoEndAfterError ==
  \A e \in Indices(events, "error") : \A i \in Indices(events, "end") : i < e

\* C10: clean completion.  When the writable side was closed and neither
\* an error nor a cancellation occurred, every logical line of the input,
\* the unterminated last one included, was processed, the buffer is empty,
\* exactly one end event was emitted, it is the last event, and the sink
\* holds the rows of the csvrow events emitted before it.
C10_CleanCompletion ==
  (closed /\ ~hasError /\ ~aborted) =>
    /\ handed = LogicalLines(input, TRUE)
    /\ buffer = <<>>
    /\ Cardinality(Indices(events, "end")) = 1
    /\ events[Len(events)].type = "end"
    /\ sink = [i \in 1..Len(RowReady(events)) |-> RowReady(events)[i].fields]

\* C10 witness: a stream with a cancellation signal completed cleanly, and
\* its unterminated last line produced a row right before the end event.
C10_Witness ==
  /\ closed /\ ~hasError /\ ~aborted
  /\ options.signal
  /\ Unterminated(input) # <<>>
  /\ Len(events) >= 2
  /\ events[Len(events) - 1].type \in {"csvrow", "progress"}

(***************************************************************************)
(* C11..C20                                                                *)
(***************************************************************************)
\* C11 as claimed: every end event reports as totalRows the number of
\* csvrow events emitted before it, and as totalLines the number of logical
\* lines processed, blank lines and the header line included.
C11_Claimed_EndTotals ==
  \A e \in Indices(events, "end") :
    /\ events[e].detail.totalRows =
         Cardinality({i \in Indices(events, "csvrow") : i < e})
    /\ events[e].detail.totalLines = Len(handed)

\* the state part of C12: in the modes that read a header row the resolved
\* header list is the list of the only headers event; it is unset exactly
\* when no header list was supplied as fixed headers and no headers event
\* was emitted
ResolvedHeadersAreFirst ==
  /\ Cardinality(Indices(events, "headers")) <= 1
  /\ \A h \in Indices(events, "headers") :
       options.expectHeaders /\ headers = Some(events[h].detail.headers)
  /\ IsNull(headers) <=>
       /\ Indices(events, "headers") = {}
       /\ options.expectHeaders \/ IsNull(options.headers)

\* the step part of C12: a step from a state with resolved headers leaves
\* them as they are
ResolvedHeadersStay == ~IsNull(headers) => headers' = headers

\* C12: the resolved header list, once set (at construction for fixed
\* headers, by the header line otherwise), never changes, whatever lines
\* follow.
C12_HeadersNeverChange ==
  [](ResolvedHeadersAreFirst) /\ [][ResolvedHeadersStay]_vars

\* C12 witness: the header line resolved the headers, and a later line with
\* another field list was emitted as a row.
C12_Witness ==
  /\ options.expectHeaders /\ ~IsNull(headers)
  /\ \E r \in Indices(events, "csvrow") :
       /\ events[r].detail.fieldsArray # Value(headers)
       /\ Len(events[r].detail.fieldsArray) = Len(Value(headers))

\* C13: when a header row is expected the header transition happens once,
\* on the first non-blank logical line.  At most one headers event is
\* emitted; it carries the number of the first non-blank line; that line
\* yields no csvrow event and does not count as a row (rows come from later
\* non-blank lines only); no csvrow event precedes the headers event or
\* occurs without it; and without a supplied list the first non-blank line
\* that tokenizes always makes the transition.
C13_HeaderTransitionOnce ==
  options.expectHeaders =>
    /\ Cardinality(Indices(events, "headers")) <= 1
    /\ \A h \in Indices(events, "headers") :
         /\ NonBlankLines # {}
         /\ events[h].detail.lineNum = Min(NonBlankLines)
         /\ \A r \in Indices(events, "csvrow") : h < r
         /\ Cardinality(Indices(events, "csvrow"))
              <= Cardinality({k \in NonBlankLines : k > Min(NonBlankLines)})
         /\ rowNum <= Cardinality({k \in NonBlankLines : k > Min(NonBlankLines)})
    /\ Indices(events, "headers") = {} =>
         Indices(events, "csvrow") = {} /\ rowNum = 0
    /\ (IsNull(options.headers) /\ NonBlankLines # {}
        /\ IsBalanced(handed[Min(NonBlankLines)])) =>
         Indices(events, "headers") # {}
    /\ headersValidated <=>
         (NonBlankLines # {} /\ IsBalanced(handed[Min(NonBlankLines)]))

\* C13 witness: a blank line came first, the second line resolved the
\* headers, and a row followed.
C13_Witness ==
  /\ options.expectHeaders
  /\ \E h \in Indices(events, "headers") : events[h].detail.lineNum = 2
  /\ Indices(events, "csvrow") # {}

\* a logical line without the one carriage return at its end
LineText(rawLine) ==
  IF rawLine # <<>> /\ rawLine[Len(rawLine)] = CR
  THEN SubSeq(rawLine, 1, Len(rawLine) - 1) ELSE rawLine

\* the fields of a logical line whose quotes are balanced
FieldsOf(rawLine) == RefTokenize(LineText(rawLine), options.delimiter).fields

\* a list of names without the whitespace around each name
Normalized(names) == [i \in 1..Len(names) |-> Trim(names[i])]

\* C14: validation of the header line (expectHeaders with a supplied list).
\* The normalized fields of the first non-blank line match iff they are as
\* many as the normalized expected names and equal them position by
\* position.  On a match the resolved headers are the expected list and a
\* headers event carries it; on a mismatch one error event names the
\* expected and the actual list, the headers stay unresolved, no headers
\* event and no csvrow event is emitted, nothing is forwarded and no later
\* line is processed.
C14_ValidateHeaders ==
  (options.expectHeaders /\ ~IsNull(options.headers)) =>
    IF NonBlankLines # {} /\ IsBalanced(handed[Min(NonBlankLines)])
    THEN LET first == Min(NonBlankLines)
             got == Normalized(FieldsOf(handed[first]))
             expected == Normalized(Value(options.headers))
             matches == /\ Len(got) = Len(expected)
                        /\ \A i \in 1..Len(expected) : got[i] = expected[i]
         IN IF matches
            THEN /\ headers = Some(expected)
                 /\ \E h \in Indices(events, "headers") :
                      /\ events[h].detail.headers = expected
                      /\ events[h].detail.lineNum = first
                 /\ \A e \in Indices(events, "error") :
                      "expected" \notin DOMAIN events[e].detail.message
            ELSE /\ IsNull(headers)
                 /\ hasError
                 /\ \E e \in Indices(events, "error") :
                      /\ events[e].detail.type = "PARSE_ERROR"
                      /\ events[e].detail.lineNum = first
                      /\ events[e].detail.message.expected = expected
                      /\ events[e].detail.message.got = got
                 /\ Indices(events, "headers") = {}
                 /\ Indices(events, "csvrow") = {}
                 /\ sink = <<>>
                 /\ Len(handed) = first
    ELSE IsNull(headers) /\ Indices(events, "headers") = {}

\* C14 witness: the header line has the expected first name and one field
\* more; the mismatch was reported, and the line after it was never
\* processed although the input was closed.
C14_Witness ==
  /\ closed
  /\ Unterminated(input) # <<>>
  /\ \E e \in Indices(events, "error") :
       /\ "got" \in DOMAIN events[e].detail.message
       /\ Len(events[e].detail.message.got) = 2
       /\ events[e].detail.message.got[1] = events[e].detail.message.expected[1]
       /\ Len(handed) = events[e].detail.lineNum
  /\ Len(handed) < Len(LogicalLines(input, TRUE))

\* the part of C15 on the field list of a row: the mapping has the header
\* names as its keys and nothing else, and every field of the line, those
\* beyond the header list included, is kept in order in fieldsArray, whose
\* length is columnCount
RowKeepsAllFields(row, h) ==
  /\ DOMAIN row.fields = {h[i] : i \in 1..Len(h)}
  /\ IsBalanced(row.raw)
  /\ row.fieldsArray = RefTokenize(row.raw, options.delimiter).fields
  /\ row.columnCount = Len(row.fieldsArray)

\* C15, as claimed: under resolved headers every header index i of every
\* emitted row is mapped, by its name, to field i, or to the empty string
\* when the line has no field i; fields beyond the header list are only in
\* fieldsArray.
C15_Claimed_RowMapping ==
  ~IsNull(headers) =>
    \A r \in Indices(events, "csvrow") :
      LET row == events[r].detail
          h == Value(headers)
          f == row.fieldsArray
      IN /\ RowKeepsAllFields(row, h)
         /\ \A i \in 1..Len(h) :
              row.fields[h[i]] = IF i <= Len(f) THEN f[i] ELSE <<>>

\* the lines handed over that reach the data row logic: non-blank,
\* tokenized without error, and not the header line
DataLines ==
  LET ok == {k \in NonBlankLines : IsBalanced(handed[k])}
  IN IF options.expectHeaders /\ ok # {} THEN ok \ {Min(ok)} ELSE ok

\* line k has a field beyond the header list h that is not blank
Overflows(k, h) ==
  LET f == FieldsOf(handed[k])
  IN \E i \in (Len(h) + 1)..Len(f) :
       \E j \in 1..Len(f[i]) : ~IsWhitespace(f[i][j])

\* the csvrow events are the rows of the first n data lines, in order
RowsOfFirst(n) ==
  /\ Len(RowReady(events)) = n
  /\ Len(sink) = n
  /\ \A j \in 1..n :
       /\ RowReady(events)[j].raw = LineText(handed[Kth(DataLines, j)])
       /\ RowReady(events)[j].rowNum = j

\* C16: strict column enforcement.  With strictColumns and resolved
\* headers a data line raises the column error, and is suppressed, iff one
\* of its fields beyond the header list is not blank.  The error reports
\* the row number of the line among the data lines, its field count and
\* the header count; the line yields no csvrow event and nothing is
\* forwarded for it.  Data lines whose fields beyond the header list are
\* all blank, and data lines with fewer fields than headers, are emitted as
\* rows and raise no error.
C16_StrictColumns ==
  (options.strictColumns /\ ~IsNull(headers)) =>
    LET h == Value(headers)
        D == DataLines
        bad == {k \in D : Overflows(k, h)}
    IN IF bad = {}
       THEN ColumnCountErrors = {} /\ RowsOfFirst(Cardinality(D))
       ELSE /\ bad = {Max(D)}
            /\ Len(handed) = Max(D)
            /\ Cardinality(ColumnCountErrors) = 1
            /\ \A e \in ColumnCountErrors :
                 /\ events[e].detail.type = "PARSE_ERROR"
                 /\ events[e].detail.lineNum = Max(D)
                 /\ events[e].detail.raw = LineText(handed[Max(D)])
                 /\ events[e].detail.message.row = Cardinality(D)
                 /\ events[e].detail.message.columns = Len(FieldsOf(handed[Max(D)]))
                 /\ events[e].detail.message.headerCount = Len(h)
            /\ RowsOfFirst(Cardinality(D) - 1)

\* C16 witness: under strictColumns a row was emitted, and the next data
\* line, with a non-blank second field against one header, raised the
\* column error.
C16_Witness ==
  /\ options.strictColumns
  /\ Indices(events, "csvrow") # {}
  /\ \E e \in ColumnCountErrors :
       /\ events[e].detail.message.columns = 2
       /\ events[e].detail.message.headerCount = 1
       /\ events[e].detail.message.row = 2

\* the decimal numerals of 1, 2, 3, ...
Numerals == << <<"1">>, <<"2">>, <<"3">>, <<"4">>, <<"5">>, <<"6">>,
               <<"7">>, <<"8">>, <<"9">> >>

\* C17: numeric keys (expectHeaders false, no header list).  No header is
\* ever resolved and no headers event emitted; the csvrow events are, in
\* order and numbered from 1, the non-blank lines that tokenize, so the
\* first non-blank line is row 1; and the mapping of a row with K fields
\* has exactly the keys "1".."K", key i holding the i-th field, whatever K
\* the other rows have.
C17_NumericKeys ==
  (~options.expectHeaders /\ IsNull(options.headers)) =>
    /\ IsNull(headers) /\ ~headersValidated
    /\ Indices(events, "headers") = {}
    /\ RowsOfFirst(Cardinality(DataLines))
    /\ (NonBlankLines # {} /\ IsBalanced(handed[Min(NonBlankLines)])) =>
         /\ RowReady(events) # <<>>
         /\ RowReady(events)[1].raw = LineText(handed[Min(NonBlankLines)])
    /\ \A r \in Indices(events, "csvrow") :
         LET row == events[r].detail
             f == RefTokenize(row.raw, options.delimiter).fields
         IN /\ Len(f) <= Len(Numerals)
            /\ DOMAIN row.fields = {Numerals[i] : i \in 1..Len(f)}
            /\ \A i \in 1..Len(f) : row.fields[Numerals[i]] = f[i]

\* C17 witness: without headers a blank line was skipped, the next line
\* became row 1 with one key, and a later row has two keys.
C17_Witness ==
  /\ ~options.expectHeaders /\ IsNull(options.headers)
  /\ handed # <<>> /\ IsBlank(handed[1])
  /\ Len(RowReady(events)) = 2
  /\ DOMAIN RowReady(events)[1].fields = {<<"1">>}
  /\ DOMAIN RowReady(events)[2].fields = {<<"1">>, <<"2">>}

\* C18: fixed headers (expectHeaders false with a header list).  From
\* construction on, before any fragment, the resolved headers are the
\* normalized supplied list; no line is read as a header and no headers
\* event is emitted; every non-blank line, the first included, goes to the
\* data row logic: the csvrow events are, in order and numbered from 1, the
\* non-blank lines that tokenize (but for a line suppressed by the strict
\* column error, at which the stream halts), each keyed by the supplied
\* names.
C18_FixedHeaders ==
  (~options.expectHeaders /\ ~IsNull(options.headers)) =>
    LET names == Normalized(Value(options.headers))
    IN /\ headers = Some(names)
       /\ ~headersValidated
       /\ Indices(events, "headers") = {}
       /\ RowsOfFirst(Cardinality(DataLines) - Cardinality(ColumnCountErrors))
       /\ (NonBlankLines # {} /\ IsBalanced(handed[Min(NonBlankLines)])
           /\ ColumnCountErrors = {}) =>
            /\ RowReady(events) # <<>>
            /\ RowReady(events)[1].raw = LineText(handed[Min(NonBlankLines)])
       /\ \A r \in Indices(events, "csvrow") :
            LET row == events[r].detail
            IN /\ DOMAIN row.fields = {names[i] : i \in 1..Len(names)}
               /\ row.fields[names[1]] = row.fieldsArray[1]

\* C18 witness: with fixed headers the first non-blank line, which follows
\* a blank line, is row 1 under the supplied name, and a second row
\* followed.
C18_Witness ==
  /\ ~options.expectHeaders /\ ~IsNull(options.headers)
  /\ handed # <<>> /\ IsBlank(handed[1])
  /\ Len(RowReady(events)) = 2
  /\ RowReady(events)[1].raw = handed[2]
  /\ DOMAIN RowReady(events)[1].fields = {<<"a">>}

\* blank logical lines: empty, or whitespace only
BlankLines == {<<>>, <<CR>>, <<CR, CR>>, <<" ">>, <<"\t", " ", CR>>, <<BOM>>}

\* lines, each followed by a line terminator, as one text
RECURSIVE JoinLines(_)
JoinLines(lines) ==
  IF lines = <<>> THEN <<>>
  ELSE Head(lines) \o <<LF>> \o JoinLines(Tail(lines))

\* the text without its blank logical lines
NonBlankText(text, atEnd) ==
  JoinLines(SelectSeq(TerminatedLines(text), LAMBDA l : ~IsBlank(l)))
    \o (IF atEnd /\ IsBlank(Unterminated(text)) THEN <<>> ELSE Unterminated(text))

\* the stream that received the text delivered so far without its blank
\* lines
WithoutBlankLines ==
  LET s == transform(New(options), options, NonBlankText(input, closed))
  IN IF closed THEN flush(s, options) ELSE s

\* C19: blank lines are inert in every header mode.  In every state the
\* stream can be in, processing a blank line adds one to the line counter
\* and changes nothing else: no event, nothing forwarded, row counter,
\* resolved headers, header-resolution state and error flag as before.
\* Hence the stream is, but for the line numbers, where the stream that got
\* the same text without the blank lines is, also when blank lines precede
\* the header line.
C19_BlankLinesInert ==
  /\ \A b \in BlankLines :
       processLine(Self(0), options, b) =
         [Self(0) EXCEPT !.lineNum = lineNum + 1, !.handed = Append(handed, b)]
  /\ \A w \in {WithoutBlankLines} :
        /\ [i \in 1..Len(events) |-> events[i].type]
             = [i \in 1..Len(w.events) |-> w.events[i].type]
        /\ RowReady(events) = RowReady(w.events)
        /\ sink = w.sink
        /\ rowNum = w.rowNum
        /\ headers = w.headers
        /\ headersValidated = w.headersValidated
        /\ hasError = w.hasError
        /\ lineNum = w.lineNum + Cardinality({k \in 1..Len(handed) : IsBlank(handed[k])})

\* C19 witness: two blank lines, one of a single carriage return, were
\* processed before the header line; the headers event carries line 3.
C19_Witness ==
  /\ Len(handed) = 3
  /\ handed[1] = <<>> /\ handed[2] = <<CR>>
  /\ \E h \in Indices(events, "headers") : events[h].detail.lineNum = 3
  /\ rowNum = 0

\* every line terminator outside quotes directly follows a carriage return
InCRLFForm(text) ==
  \A i \in Terminators(text) : i > 1 /\ text[i - 1] = CR

\* some line terminator outside quotes directly follows a carriage return
HasCRLF(text) ==
  \E i \in Terminators(text) : i > 1 /\ text[i - 1] = CR

\* the text with LF in place of every CR LF that ends a logical line
LFForm(text) ==
  LET keep == {i \in 1..Len(text) :
                 ~(text[i] = CR /\ (i + 1) \in Terminators(text))}
  IN [k \in 1..Cardinality(keep) |-> text[Kth(keep, k)]]

\* the stream that received, as one fragment, the text delivered so far
\* with LF terminators
WithLFTerminators ==
  LET s == transform(New(options), options, LFForm(input))
  IN IF closed THEN flush(s, options) ELSE s

\* the headers and csvrow events, in order
HeadersAndRows(evs) ==
  SelectSeq(evs, LAMBDA e : e.type \in {"headers", "csvrow"})

\* every csvrow event carries as raw line its logical line without the one
\* carriage return at its end, and its fields hold every carriage return of
\* the raw line
RowsKeepOtherCRs ==
  \A j \in 1..Len(RowReady(events)) :
    LET line == handed[Kth(DataLines, j)]
        row == RowReady(events)[j]
    IN /\ row.raw = LineText(line)
       /\ Count(row.raw, CR) = CountAll(row.fieldsArray, CR)

\* C20 as claimed: for any text, the headers and csvrow events (mappings
\* and raw lines included) of the text with every line terminator outside
\* quotes written CR LF, cut into fragments anywhere, are those of the text
\* with LF terminators; carriage returns elsewhere are preserved.
C20_Claimed_CRLFEquivalence ==
  /\ InCRLFForm(input) =>
       HeadersAndRows(events) = HeadersAndRows(WithLFTerminators.events)
  /\ RowsKeepOtherCRs

\* C20 as amended: the same for the texts in which no LF terminator
\* already follows a carriage return before the replacement.
C20_CRLFEquivalence ==
  /\ (InCRLFForm(input) /\ ~HasCRLF(LFForm(input))) =>
       HeadersAndRows(events) = HeadersAndRows(WithLFTerminators.events)
  /\ RowsKeepOtherCRs

\* C20 witness: a header line ending in CR LF, cut between the CR and the
\* LF, and a data line; the headers and the row are those of the text with
\* LF.
C20_Witness ==
  /\ "crlf" \in cuts
  /\ InCRLFForm(input) /\ Terminators(input) # {}
  /\ ~HasCRLF(LFForm(input))
  /\ Indices(events, "headers") # {}
  /\ Indices(events, "csvrow") # {}

(***************************************************************************)
(* C21..C30                                                                *)
(***************************************************************************)
\* a list without its last element
Front(seq) == SubSeq(seq, 1, Len(seq) - 1)

\* the types of a list of events
EventTypes(evs) == [i \in 1..Len(evs) |-> evs[i].type]

\* the events other than the progress events, which carry the bytes seen,
\* as dispatched: type and detail
NotProgress(evs) ==
  LET kept == SelectSeq(evs, LAMBDA e : e.type # "progress")
  IN [i \in 1..Len(kept) |-> [type |-> kept[i].type, detail |-> kept[i].detail]]

\* the step in which the end signal arrives
EndArrives == ~closed /\ closed'

\* the stream before the step, had it received a line terminator as its
\* next fragment instead of the end signal
Terminated == transform(Self(0), options, <<LF>>)

\* the effect of the end signal on a stream that had neither an error nor a
\* cancellation: an empty buffer adds the end event and nothing else; a
\* non-empty buffer is handed over once, as one more line, and, when its
\* quotes are balanced, leaves the events (but for the bytes seen that a
\* progress event reports), rows, counters and headers that a line
\* terminator would have left, followed by the end event; a buffer
\* that ends inside a quoted region gives the tokenizer error for that line
FlushesLastLine ==
  (EndArrives /\ ~hasError /\ ~aborted) =>
    /\ buffer' = <<>>
    /\ events' # <<>> /\ events'[Len(events')].type = "end"
    /\ IF buffer = <<>>
       THEN /\ events' = Append(events, events'[Len(events')])
            /\ UNCHANGED <<lineNum, rowNum, handed, sink, headers,
                           headersValidated, hasError>>
       ELSE /\ handed' = Append(handed, buffer)
            /\ lineNum' = lineNum + 1
            /\ IF IsBalanced(buffer)
               THEN \A t \in {Terminated} :
                      /\ EventTypes(Front(events')) = EventTypes(t.events)
                      /\ NotProgress(Front(events')) = NotProgress(t.events)
                      /\ sink' = t.sink
                      /\ rowNum' = t.rowNum
                      /\ lineNum' = t.lineNum
                      /\ headers' = t.headers
                      /\ headersValidated' = t.headersValidated
                      /\ hasError' = t.hasError
               ELSE /\ hasError'
                    /\ Len(events') = Len(events) + 2
                    /\ events'[Len(events) + 1].type = "error"
                    /\ events'[Len(events) + 1].detail.type = "UNBALANCED_QUOTES"
                    /\ events'[Len(events) + 1].detail.lineNum = lineNum + 1
                    /\ events'[Len(events) + 1].detail.raw = LineText(buffer)
                    /\ UNCHANGED <<rowNum, sink, headers>>

\* C21: the end-of-input flush.  When the end signal arrives without prior
\* error or cancellation, non-empty buffered text is processed exactly once
\* as a final logical line, through the pipeline of the terminated lines
\* (line counter, blank skip, tokenizer, header and row handling); an empty
\* buffer counts no line; so the last line of an input yields its row also
\* without a terminator.
C21_FlushLastLine == [][FlushesLastLine]_vars

\* C21 witness: the input was closed after a header line and a last line
\* without terminator, and the last event before the end event is the row
\* of that line.
C21_Witness ==
  /\ closed /\ ~hasError
  /\ Unterminated(input) # <<>>
  /\ Indices(events, "headers") # {}
  /\ lineNum = 2
  /\ \E r \in Indices(events, "csvrow") :
       /\ events[r].detail.raw = Unterminated(input)
       /\ \A i \in (r + 1)..Len(events) : events[i].type \in {"progress", "end"}
  /\ events[Len(events)].type = "end"

\* the events that belong to one logical line
LineEvents == Indices(events, "headers") \cup Indices(events, "csvrow")
                \cup Indices(events, "error")

\* the number of the logical line event i belongs to: headers and error
\* events carry it; the k-th csvrow event belongs to the k-th line that
\* reached the data row logic
LineOf(i) ==
  IF events[i].type = "csvrow"
  THEN Kth(DataLines, Cardinality({j \in Indices(events, "csvrow") : j <= i}))
  ELSE events[i].detail.lineNum

\* C22: rows and notifications are emitted in line order.  The k-th csvrow
\* event carries rowNum k; every headers, csvrow and error event belongs to
\* a line that was handed over (a csvrow event carries that line as its raw
\* line); and of two such events the later one belongs to a later line.
C22_LineOrder ==
  /\ \A k \in 1..Len(RowReady(events)) : RowReady(events)[k].rowNum = k
  /\ Len(RowReady(events)) <= Cardinality(DataLines)
  /\ \A i \in LineEvents :
       /\ LineOf(i) \in 1..Len(handed)
       /\ events[i].type = "csvrow" =>
            events[i].detail.raw = LineText(handed[LineOf(i)])
       /\ events[i].type = "error" =>
            events[i].detail.raw = LineText(handed[LineOf(i)])
  /\ \A i, j \in LineEvents : i < j => LineOf(i) < LineOf(j)

\* C22 witness: the headers event of line 1 was followed by row 1, emitted
\* from line 3 after the blank line 2.
C22_Witness ==
  /\ \E h \in Indices(events, "headers") : events[h].detail.lineNum = 1
  /\ Len(RowReady(events)) = 1
  /\ DataLines = {3}
  /\ IsBlank(handed[2])

\* the number of csvrow events before event i
RowsBefore(i) == Cardinality({j \in Indices(events, "csvrow") : j < i})

\* C23: the pipeline of a row, and the fidelity of the sink.  When the
\* csvrow event of row k is dispatched the rows 1..k-1 are enqueued and row
\* k is not; a progress event directly follows the csvrow event of its row
\* and is dispatched before that row is enqueued; every event of a later
\* line finds the row enqueued.  The rows enqueued are the mappings of the
\* csvrow events, in order, none missing, repeated or added.
C23_RowPipeline ==
  /\ sink = [k \in 1..Len(RowReady(events)) |-> RowReady(events)[k].fields]
  /\ \A i \in 1..Len(events) :
       IF events[i].type = "progress"
       THEN /\ i > 1 /\ events[i - 1].type = "csvrow"
            /\ events[i].detail.rowNum = events[i - 1].detail.rowNum
            /\ events[i].forwarded = RowsBefore(i) - 1
       ELSE events[i].forwarded = RowsBefore(i)

\* C23 witness: two rows, each followed by its progress event, and the end
\* event; the sink holds the two rows.
C23_Witness ==
  /\ Len(sink) = 2
  /\ EventTypes(events) = <<"csvrow", "progress", "csvrow", "progress", "end">>
  /\ sink[1] # sink[2]

\* the number of bytes of the UTF-8 encoding of a text
Bytes(text) == Len(text) + 2 * Count(text, BOM)

\* the state part of C24: with interval 0 there is no progress event; with
\* interval N > 0 the csvrow event of row r is directly followed by a
\* progress event iff r is a multiple of N; a progress event carries the
\* row number of the row before it, the number of that row's line and the
\* configured total; the marker is the last multiple of N reached
ProgressAtMultiples ==
  LET N == options.progressInterval
  IN IF N = 0 THEN Indices(events, "progress") = {} /\ lastProgressRow = 0
     ELSE /\ \A i \in Indices(events, "csvrow") :
               (i < Len(events) /\ events[i + 1].type = "progress")
                 <=> events[i].detail.rowNum % N = 0
          /\ \A p \in Indices(events, "progress") :
               /\ p > 1 /\ events[p - 1].type = "csvrow"
               /\ events[p].detail.rowNum = events[p - 1].detail.rowNum
               /\ events[p].detail.lineNum = LineOf(p - 1)
               /\ events[p].detail.totalBytes = options.totalBytes
          /\ lastProgressRow = N * (Len(RowReady(events)) \div N)

\* the step part of C24: the bytes seen are those of the text delivered so
\* far, and the progress events dispatched while a fragment is processed
\* carry them
ProgressCarriesBytes ==
  /\ (~closed /\ ~hasError) => bytesProcessed' = Bytes(input')
  /\ \A p \in (Len(events) + 1)..Len(events') :
       events'[p].type = "progress" =>
         events'[p].detail.bytesProcessed = bytesProcessed'

\* C24: the cadence of the progress events.  With an interval N > 0 a
\* progress event follows the csvrow event of row r exactly when r minus
\* the last-progress-row marker is at least N, that is at the rows N, 2N,
\* 3N, ...; it carries the row and line counters and the bytes seen so far;
\* with the interval 0 no progress event is dispatched.
C24_ProgressCadence ==
  [](ProgressAtMultiples) /\ [][ProgressCarriesBytes]_vars

\* C24 witness: with the interval 2 four rows were emitted, with progress
\* events after the rows 2 and 4 only.
C24_Witness ==
  /\ options.progressInterval = 2
  /\ Len(RowReady(events)) = 4
  /\ [i \in 1..Len(OfType(events, "progress")) |->
        OfType(events, "progress")[i].detail.rowNum] = <<2, 4>>

\* the cancellation signal of the stream has been raised: it was aborted
\* when the stream was constructed, or it was aborted later (the abort
\* listener of the constructor has run)
SignalRaised == options.signal /\ (options.signalAborted \/ aborted)

\* a step that emits nothing, forwards nothing, processes no line and
\* leaves the counters and the resolved headers alone
Ignored ==
  UNCHANGED <<events, sink, handed, lineNum, rowNum, bytesProcessed, headers>>

\* C25 as claimed: once the cancellation signal has been raised, every
\* fragment delivered afterwards and the end signal are ignored: no event,
\* nothing forwarded, line counter, row counter, bytes seen and resolved
\* headers unchanged.
C25_Claimed_CancelledIgnores == [][SignalRaised => Ignored]_vars

\* what holds of the code: the same once the abort listener has run
IgnoresOnceListenerRan == [][aborted => Ignored]_vars

\* the events dispatched by the step, as indices of events'
Dispatched == (Len(events) + 1)..Len(events')

\* the step in which a listener aborts the signal while the stream handles
\* a fragment or the end signal.  With a the event whose listener aborts:
\* the line of that event is the last line handed over; after a come at
\* most the progress event of the same row and the end event of the same
\* call; and when the line gave a row, the row is enqueued
CompletesLineInFlight ==
  (~aborted /\ aborted' /\ Dispatched # {}) =>
    LET a == Min({i \in Dispatched : events'[i].aborts})
    IN /\ \A i \in (a + 1)..Len(events') :
            \/ events'[i].type = "end"
            \/ events'[i].type = "progress" /\ i = a + 1
                 /\ events'[a].type = "csvrow"
       /\ events'[a].type \in {"headers", "error"} =>
            events'[a].detail.lineNum = Len(handed')
       /\ events'[a].type = "csvrow" =>
            /\ handed' # <<>>
            /\ events'[a].detail.raw = LineText(handed'[Len(handed')])
       /\ lineNum' = Len(handed')
       /\ Len(sink') = Cardinality({i \in 1..Len(events') : events'[i].type = "csvrow"})
       /\ \A i \in Dispatched :
            events'[i].type = "csvrow" =>
              sink'[events'[i].detail.rowNum] = events'[i].detail.fields

\* C26: cancellation is cooperative.  When a listener raises the signal
\* while a line is processed, the processing of that line completes (its
\* csvrow event is dispatched, its progress event when due, and its row is
\* enqueued); no later line of the fragment is processed; and every later
\* fragment and the end signal are ignored.
C26_Cooperative == [][CompletesLineInFlight /\ (aborted => Ignored)]_vars

\* C26 witness: a listener of the csvrow event of row 1 aborted the signal;
\* the row is enqueued, its progress event followed, and the complete line
\* after it stays unprocessed in the buffer.
C26_Witness ==
  /\ aborted
  /\ Len(sink) = 1
  /\ Len(events) = 2
  /\ events[1].type = "csvrow" /\ events[1].aborts
  /\ events[2].type = "progress"
  /\ Len(handed) = 1
  /\ Cardinality(Terminators(input)) = 2

\* the state part of C27: between two calls nothing is pending.  Unless an
\* error halted the stream, every line whose terminator was delivered has
\* been handed over, and no other line before the end signal
NothingPending ==
  ~hasError => handed = LogicalLines(input, closed)

\* the step part of C27: the headers, csvrow and error events dispatched
\* while a fragment is handled belong to lines whose terminator outside
\* quotes lies in that fragment; those dispatched at the end signal belong
\* to the unterminated last line
OnlyTriggeredLines ==
  \A i \in Dispatched :
    events'[i].type \in {"headers", "csvrow", "error"} =>
      \A n \in {LineOf(i)'} :
        IF closed'
        THEN n = Cardinality(Terminators(input)) + 1
        ELSE /\ n <= Cardinality(Terminators(input'))
             /\ Kth(Terminators(input'), n) > Len(input)

\* C27: no speculative emission, and run to completion per fragment.  A
\* headers or csvrow event of a logical line is dispatched only while the
\* fragment that holds the line's terminator outside quotes is handled, or
\* at the end signal for the unterminated last line; and when the call
\* returns, every line the fragments delivered so far have completed has
\* been processed.
C27_NoSpeculation == [](NothingPending) /\ [][OnlyTriggeredLines]_vars

\* C27 witness: the row of the terminated first line was emitted, and the
\* balanced text after it waits in the buffer without any event.
C27_Witness ==
  /\ ~closed /\ ~hasError
  /\ buffer # <<>> /\ IsBalanced(buffer) /\ ~IsBlank(buffer)
  /\ Len(handed) = 1
  /\ Len(RowReady(events)) = 1
  /\ Len(events) = 1

\* the malformed lines among the lines handed over: a line whose quotes are
\* unbalanced; a header line that does not match the supplied list; a data
\* line that breaks the strict column rule
UnbalancedLines == {k \in NonBlankLines : ~IsBalanced(handed[k])}
MismatchedLines ==
  LET ok == {k \in NonBlankLines : IsBalanced(handed[k])}
  IN IF options.expectHeaders /\ ~IsNull(options.headers) /\ ok # {}
        /\ Normalized(FieldsOf(handed[Min(ok)])) # Normalized(Value(options.headers))
     THEN {Min(ok)} ELSE {}
OverflowingLines ==
  IF options.strictColumns /\ ~IsNull(headers)
  THEN {k \in DataLines : Overflows(k, Value(headers))} ELSE {}
MalformedLines == UnbalancedLines \cup MismatchedLines \cup OverflowingLines

\* C28: parsing errors are values.  Every malformed line (unbalanced
\* quotes, header mismatch, strict column violation), and no other line,
\* gives an error event; the event carries the kind, a message of that
\* kind, the number of the line and the raw line; the call that met the
\* line returns with the stream halted and everything else in place: the
\* rows emitted before the error are in the sink.
C28_ErrorsAreValues ==
  /\ {events[e].detail.lineNum : e \in Indices(events, "error")} = MalformedLines
  /\ hasError <=> MalformedLines # {}
  /\ \A e \in Indices(events, "error") :
       LET err == events[e].detail
       IN /\ DOMAIN err = {"type", "message", "lineNum", "raw"}
          /\ err.lineNum \in 1..Len(handed)
          /\ err.raw = LineText(handed[err.lineNum])
          /\ err.lineNum \in UnbalancedLines =>
               /\ err.type = "UNBALANCED_QUOTES"
               /\ err.message = [text |-> "CSV parsing error", error |-> err.type]
          /\ err.lineNum \in MismatchedLines =>
               /\ err.type = "PARSE_ERROR"
               /\ DOMAIN err.message = {"text", "expected", "got"}
          /\ err.lineNum \in OverflowingLines =>
               /\ err.type = "PARSE_ERROR"
               /\ DOMAIN err.message = {"text", "row", "columns", "headerCount"}
  /\ sink = [k \in 1..Len(RowReady(events)) |-> RowReady(events)[k].fields]

\* C28 witness: a row was emitted and enqueued, then the unterminated last
\* line with unbalanced quotes gave the error event at the end signal, and
\* the call returned.
C28_Witness ==
  /\ closed
  /\ Len(sink) = 1
  /\ \E e \in Indices(events, "error") :
       /\ events[e].detail.type = "UNBALANCED_QUOTES"
       /\ events[e].detail.lineNum = 2
       /\ Count(events[e].detail.raw, Quote) = 1

(***************************************************************************)
(* validate: the rows reported invalid.                                    *)
(***************************************************************************)
\* the invocations of the row callback that returned a non-empty list of
\* errors, in the order of the invocations
InvalidCalls ==
  SelectSeq(validation.calls,
            LAMBDA c : ~IsNull(c.errors) /\ Value(c.errors) # <<>>)
\* the limit on the collected rows: the maxInvalidRows option, 100 without it
InvalidRowsLimit ==
  IF IsNull(options.maxInvalidRows) THEN 100 ELSE Value(options.maxInvalidRows)
\* the csvrow events the stream dispatched, in order
RowEvents == SelectSeq(events, LAMBDA e : e.type = "csvrow")
\* the row callback was invoked once for each of the first rows, in row order
CalledPerRow ==
  /\ Len(validation.calls) <= Len(RowEvents)
  /\ \A i \in 1..Len(validation.calls) :
       validation.calls[i].rowNum = RowEvents[i].detail.rowNum
\* the collected rows are the first InvalidRowsLimit invalid ones, in order
CollectsFirstInvalid ==
  /\ Len(validation.invalidRows) =
       (IF Len(InvalidCalls) < InvalidRowsLimit THEN Len(InvalidCalls)
        ELSE InvalidRowsLimit)
  /\ \A i \in 1..Len(validation.invalidRows) :
       /\ validation.invalidRows[i].rowNum = InvalidCalls[i].rowNum
       /\ validation.invalidRows[i].errors = Value(InvalidCalls[i].errors)
       /\ validation.invalidRows[i].raw =
            RowEvents[InvalidCalls[i].rowNum].detail.raw

\* C29: at any moment of a validate call, invalidRowCount is the number of
\* rows for which the row callback returned a non-empty list of errors (a
\* row for which it returned nothing or an empty list is not counted), the
\* collected invalidRows are the first maxInvalidRows (100 without the
\* option) of these rows in row order, never more, and the result validate
\* resolves with carries this count and this list
C29_InvalidRows ==
  /\ CalledPerRow
  /\ validation.invalidRowCount = Len(InvalidCalls)
  /\ CollectsFirstInvalid
  /\ Len(validation.invalidRows) <= InvalidRowsLimit
  /\ ~IsNull(result) =>
       /\ Value(result).invalidRowCount = Len(InvalidCalls)
       /\ Value(result).invalidRows = validation.invalidRows
       /\ Value(result).valid => Len(InvalidCalls) = 0

\* three rows, the first and the third invalid and the second without a
\* verdict, with maxInvalidRows 1: two rows are counted, the first is kept
C29_Witness ==
  /\ options.maxInvalidRows = Some(1)
  /\ Len(validation.calls) = 3
  /\ IsNull(validation.calls[2].errors)
  /\ Len(InvalidCalls) = 2
  /\ validation.invalidRowCount = 2
  /\ Len(validation.invalidRows) = 1
  /\ validation.invalidRows[1].rowNum = 1
  /\ ~IsNull(result)
  /\ ~Value(result).valid

(***************************************************************************)
(* validate: an input without data rows.                                   *)
(***************************************************************************)
\* validate has resolved at the end of an input that yielded no data row
ResolvedWithoutRows ==
  /\ closed
  /\ ~IsNull(result)
  /\ Len(RowEvents) = 0
\* the result reports no fatal error other than NO_DATA_ROWS
NoOtherFatalError ==
  \/ IsNull(Value(result).fatalError)
  \/ Value(Value(result).fatalError).type = "NO_DATA_ROWS"

\* C30 as claimed: whatever the options, a validate call whose input yields
\* no data row and no other fatal error resolves with valid = false and the
\* fatal error NO_DATA_ROWS
C30_Claimed_NoDataRows ==
  (ResolvedWithoutRows /\ NoOtherFatalError) =>
    /\ ~Value(result).valid
    /\ ~IsNull(Value(result).fatalError)
    /\ Value(Value(result).fatalError).type = "NO_DATA_ROWS"

(***************************************************************************)
(* validate: rows after a fatal error.                                     *)
(***************************************************************************)
\* the header list of a headers event differs from the required list, in
\* count or at some position
Mismatches(e) ==
  /\ ~IsNull(options.requiredHeaders)
  /\ LET required == Normalized(Value(options.requiredHeaders))
         got == Normalized(e.detail.headers)
     IN \/ Len(got) # Len(required)
        \/ \E i \in 1..Len(required) : got[i] # required[i]
\* the events that record a fatal error: an error event of the stream, a
\* headers event with a mismatch
FatalEvents ==
  {i \in 1..Len(events) :
     \/ events[i].type = "error"
     \/ events[i].type = "headers" /\ Mismatches(events[i])}
MismatchEvents ==
  {i \in 1..Len(events) : events[i].type = "headers" /\ Mismatches(events[i])}
\* the row numbers of the csvrow events dispatched before any fatal event
RowsBeforeFatal ==
  {events[i].detail.rowNum : i \in
     {j \in 1..Len(events) : /\ events[j].type = "csvrow"
                             /\ \A f \in FatalEvents : j < f}}
\* the row numbers the row callback was invoked with
CalledRows == {validation.calls[i].rowNum : i \in 1..Len(validation.calls)}

\* C31: at any moment of a validate call, the rows counted and the rows the
\* row callback was invoked with are the rows dispatched before the first
\* fatal event (an error event of the stream, or a headers event whose list
\* differs from requiredHeaders in count or at some position): a row that
\* follows a fatal event is not counted, not passed to the callback and not
\* collected.  Once a fatal event was dispatched a fatal error is recorded
\* and the result, when validate resolves, has valid = false; after a header
\* mismatch rowCount is 0
C31_FatalStopsRows ==
  /\ validation.rowCount = Cardinality(RowsBeforeFatal)
  /\ CalledRows = (IF options.onRow THEN RowsBeforeFatal ELSE {})
  /\ Len(validation.calls) = Cardinality(CalledRows)
  /\ validation.invalidRowCount <= Cardinality(RowsBeforeFatal)
  /\ \A i \in 1..Len(validation.invalidRows) :
       validation.invalidRows[i].rowNum \in RowsBeforeFatal
  /\ FatalEvents # {} =>
       /\ ~IsNull(validation.fatalError)
       /\ ~IsNull(result) => /\ ~Value(result).valid
                             /\ Value(result).rowCount = Cardinality(RowsBeforeFatal)
  /\ MismatchEvents # {} =>
       /\ validation.rowCount = 0
       /\ ~IsNull(result) => Value(result).rowCount = 0

\* an error event at line 1, then a row that is not counted and not passed
\* to the callback; validate resolved with valid = false and the error
C31_Witness ==
  /\ options.onRow
  /\ [i \in 1..Len(events) |-> events[i].type] = <<"error", "csvrow", "end">>
  /\ validation.rowCount = 0
  /\ validation.calls = <<>>
  /\ ~IsNull(result)
  /\ ~Value(result).valid
  /\ Value(Value(result).fatalError).type = "UNBALANCED_QUOTES"
(***************************************************************************)
(* Header normalization.                                                   *)
(***************************************************************************)
\* a name without the leading characters of a set
RECURSIVE WithoutLeading(_, _)
WithoutLeading(name, chars) ==
  IF name # <<>> /\ Head(name) \in chars THEN WithoutLeading(Tail(name), chars)
  ELSE name
\* a name without the trailing characters of a set
RECURSIVE WithoutTrailing(_, _)
WithoutTrailing(name, chars) ==
  IF name # <<>> /\ name[Len(name)] \in chars
  THEN WithoutTrailing(SubSeq(name, 1, Len(name) - 1), chars)
  ELSE name
\* a name without the characters of a set around it
Surrounded(name, chars) == WithoutTrailing(WithoutLeading(name, chars), chars)
\* the blank characters other than the byte-order mark
Blanks == {" ", "\t", LF, CR}
\* a name without one byte-order mark at its start
WithoutOneBOM(name) ==
  IF name # <<>> /\ Head(name) = BOM THEN Tail(name) ELSE name
\* the headers events, with the fields of the header line of each
HeaderEvents == {i \in 1..Len(events) : events[i].type = "headers"}
HeaderFields(i) == FieldsOf(handed[events[i].detail.lineNum])

\* C32 as claimed: the first field of the header line loses one leading
\* byte-order mark and the blanks around it, every other field loses the
\* blanks around it only: a byte-order mark at the start of a non-first
\* field stays in the header name
C32_Claimed_BomOnlyFirst ==
  \A i \in HeaderEvents :
    LET got == events[i].detail.headers
        f == HeaderFields(i)
    IN /\ Len(got) = Len(f)
       /\ got[1] = Surrounded(WithoutOneBOM(f[1]), Blanks)
       /\ \A k \in 2..Len(f) : got[k] = Surrounded(f[k], Blanks)

\* C32: every field of the header line, the first one or not, loses the
\* blanks and the byte-order marks around it (trim removes U+FEFF as it
\* removes spaces), and nothing else: a byte-order mark or a blank inside a
\* name stays.  The resolved headers are the list the headers event carries
C32_HeaderNormalization ==
  \A i \in HeaderEvents :
    LET got == events[i].detail.headers
        f == HeaderFields(i)
    IN /\ Len(got) = Len(f)
       /\ \A k \in 1..Len(f) : got[k] = Surrounded(f[k], Blanks \cup {BOM})
       /\ headers = Some(got)

\* a captured header line whose second field is a byte-order mark and an "a":
\* the second header name is "a"
C32_Witness ==
  /\ IsNull(options.headers)
  /\ \E i \in HeaderEvents :
       /\ Len(HeaderFields(i)) = 2
       /\ HeaderFields(i)[2] = <<BOM, "a">>
       /\ events[i].detail.headers[2] = <<"a">>

(***************************************************************************)
(* Strict columns in numeric-keys mode.                                    *)
(***************************************************************************)
\* the numbers of fields of the rows emitted
ColumnCounts ==
  {Len(RefTokenize(events[r].detail.raw, options.delimiter).fields) :
     r \in Indices(events, "csvrow")}

\* C33: with strictColumns, expectHeaders false and no header list, no
\* error is raised for a column count: the only errors are unbalanced
\* quotes, and every non-blank line that tokenizes is emitted as a row with
\* all its fields, in order, whatever the number of fields of the other rows
C33_StrictWithoutHeaders ==
  (options.strictColumns /\ ~options.expectHeaders /\ IsNull(options.headers)) =>
    /\ \A e \in Indices(events, "error") :
         /\ events[e].detail.type = "UNBALANCED_QUOTES"
         /\ ~IsBalanced(events[e].detail.raw)
    /\ RowsOfFirst(Cardinality(DataLines))
    /\ rowNum = Cardinality(DataLines)
    /\ \A r \in Indices(events, "csvrow") :
         /\ events[r].detail.fieldsArray =
              RefTokenize(events[r].detail.raw, options.delimiter).fields
         /\ events[r].detail.columnCount = Len(events[r].detail.fieldsArray)

\* with strictColumns and no headers, a row of one field and a row of two
\* fields were both emitted, and the stream ended without error
C33_Witness ==
  /\ options.strictColumns /\ ~options.expectHeaders /\ IsNull(options.headers)
  /\ closed
  /\ Indices(events, "error") = {}
  /\ Len(RowReady(events)) = 2
  /\ RowReady(events)[1].columnCount = 1
  /\ RowReady(events)[2].columnCount = 2
  /\ ColumnCounts = {1, 2}

(***************************************************************************)
(* collect.                                                                *)
(***************************************************************************)
\* the invocations of the reducer callback in which it threw
ThrowingCalls ==
  {i \in 1..Len(collecting.calls) : collecting.calls[i].outcome # "return"}
\* the events the stream had dispatched when collect settled
SeenBySettlement == SubSeq(events, 1, Value(settlement).seen)
\* the rows of the csvrow events among some events, in emission order
RowsAmong(evs) ==
  LET rows == SelectSeq(evs, LAMBDA e : e.type = "csvrow")
  IN [i \in 1..Len(rows) |-> rows[i].detail.fields]
\* the row numbers of the csvrow events dispatched before any error event
RowsBeforeError ==
  {events[i].detail.rowNum : i \in
     {j \in Indices(events, "csvrow") :
        \A e \in Indices(events, "error") : j < e}}

\* C34 as claimed: the callback is invoked for the rows in emission order,
\* it is not invoked again once it threw, and not for a row that follows an
\* error event of the stream; collect rejects with CSVStreamError, carrying
\* the type and the line number of the error, when the stream had emitted
\* an error, else with CollectAbortError carrying the thrown value when the
\* callback threw, else it resolves to the list of all the rows in order
C34_Claimed_Collect ==
  /\ \A i \in ThrowingCalls : i = Len(collecting.calls)
  /\ \A i \in 1..Len(collecting.calls) :
       collecting.calls[i].rowNum \in RowsBeforeError
  /\ ~IsNull(settlement) =>
       LET out == Value(settlement).outcome
           errors == SelectSeq(SeenBySettlement, LAMBDA e : e.type = "error")
       IN IF errors # <<>>
          THEN /\ out.kind = "CSVStreamError"
               /\ Value(out.error).type = errors[Len(errors)].detail.type
               /\ Value(out.error).lineNum = errors[Len(errors)].detail.lineNum
          ELSE IF ThrowingCalls # {}
          THEN /\ out.kind = "CollectAbortError"
               /\ collecting.calls[Len(collecting.calls)].outcome = "throwError"
                    => Value(out.error).originalError = "Error"
          ELSE /\ out.kind = "resolved"
               /\ Value(out.value) = RowsAmong(SeenBySettlement)

(***************************************************************************)
(* The writer stream.                                                      *)
(***************************************************************************)
\* the chunks of one kind of line among the chunks enqueued
ChunksOf(kind) == {i \in 1..Len(writer.output) : writer.output[i].line = kind}

\* C35 as claimed: whatever rows were written, arrays and objects in any
\* order, the header line is among the chunks at most once, and then it is
\* the first chunk; with includeHeaders false it is never there; and the
\* data lines are one per written row, in the order of the writes
C35_Claimed_HeadersFirst ==
  /\ Cardinality(ChunksOf("header")) <= 1
  /\ \A i \in ChunksOf("header") : i = 1
  /\ options.includeHeaders = Some(FALSE) => ChunksOf("header") = {}
  /\ Cardinality(ChunksOf("data")) = Len(written)
  /\ \A k \in 1..Len(written) :
       \E i \in ChunksOf("data") :
         /\ Cardinality({j \in ChunksOf("data") : j <= i}) = k
         /\ written[k].isArray /\ Len(written[k].values) = 1 =>
              writer.output[i].chunk \in
                {written[k].values[1] \o <<CR, LF>>,
                 <<Quote>> \o written[k].values[1] \o <<Quote, CR, LF>>}

(***************************************************************************)
(* Writer and tokenizer.                                                   *)
(***************************************************************************)
\* C40: for a non-empty list of string fields and a one-character delimiter
\* that is not the quote character, CR or LF, the line rowToLine builds
\* (escapeField on each field, joined by the delimiter, with or without
\* quoteAll) is tokenized by parseCsvLine, with the same delimiter, into
\* exactly the original list of fields
C40_RoundTrip ==
  ~IsNull(tokResult) =>
    /\ ~IsError(Value(tokResult))
    /\ Value(tokResult).fields = written[1].values

\* without quoteAll, a list of two fields, the first holding the delimiter
\* and a quote, the second a line feed, went round and came back as it was
C40_Witness ==
  /\ ~IsNull(tokResult)
  /\ ~writerQuoteAll(options)
  /\ written[1].values = << <<tokDelimiter, Quote>>, <<LF>> >>
  /\ tokLine = <<Quote, tokDelimiter, Quote, Quote, Quote, tokDelimiter,
                 Quote, LF, Quote>>
  /\ Value(tokResult).fields = written[1].values

(***************************************************************************)
(* C36                                                                     *)
(***************************************************************************)
\* the error events that report unbalanced quotes
UnbalancedEvents ==
  {i \in Indices(events, "error") : events[i].detail.type = "UNBALANCED_QUOTES"}

\* C36: scanner and tokenizer agree on the quote state.  Every line the
\* scanner handed over at a line terminator outside quotes tokenizes
\* successfully; an UNBALANCED_QUOTES error is reported only after the end
\* of the input, for the last line handed over, which is the unterminated
\* text after the last terminator; none is reported while fragments are
\* still arriving.
C36_ScannerTokenizerAgree ==
  /\ \A k \in 1..Len(handed) :
       (k <= Cardinality(Terminators(input)))
         => ~IsError(parseCsvLine(StripTrailingCR(handed[k]), options.delimiter))
  /\ ~closed => UnbalancedEvents = {}
  /\ \A i \in UnbalancedEvents :
       /\ closed
       /\ events[i].detail.lineNum = Len(handed)
       /\ Len(handed) = Cardinality(Terminators(input)) + 1
       /\ handed[Len(handed)] = Unterminated(input)
       /\ events[i].detail.raw = StripTrailingCR(Unterminated(input))

\* C36 witness: a line with a line terminator inside quotes was handed over
\* at its terminator and gave a row, from a text cut inside the quoted
\* region, and the unterminated last line was reported at the end of the
\* input for its unbalanced quotes
C36_Witness ==
  /\ closed
  /\ "quoted" \in cuts
  /\ UnbalancedEvents # {}
  /\ \E i \in Indices(events, "csvrow") : Count(events[i].detail.raw, LF) > 0

(***************************************************************************)
(* C37                                                                     *)
(***************************************************************************)
\* the details of the events of one type, in order
Payloads(evs, type) ==
  LET es == OfType(evs, type) IN [i \in 1..Len(es) |-> es[i].detail]

\* the types of the events other than progress, in order
RECURSIVE KindsInOrder(_)
KindsInOrder(evs) ==
  IF evs = <<>> THEN <<>>
  ELSE IF Head(evs).type = "progress" THEN KindsInOrder(Tail(evs))
  ELSE <<Head(evs).type>> \o KindsInOrder(Tail(evs))

\* the headers, error and end events with their payloads, and the order of
\* the events other than progress, are those of the stream that received
\* the same text as one fragment
SameNotifications ==
  /\ \A type \in {"headers", "error", "end"} :
       Payloads(events, type) = Payloads(OneFragment.events, type)
  /\ KindsInOrder(events) = KindsInOrder(OneFragment.events)

\* after the end of the input the counters and the resolved headers are
\* those of the stream that received the same text as one fragment
SameFinalCounters ==
  closed => /\ lineNum = OneFragment.lineNum
            /\ rowNum = OneFragment.rowNum
            /\ headers = OneFragment.headers

\* after the end of the input the bytes counter is that of the stream that
\* received the same text as one fragment
SameFinalBytes == closed => bytesProcessed = OneFragment.bytesProcessed

\* C37, as claimed: for every input and every way of cutting it into
\* fragments, the headers, error and end events with their payloads, the
\* order of the events other than progress, and the final line counter, row
\* counter, bytes counter and resolved headers are those of the delivery as
\* one fragment.
C37_Claimed_Invariance ==
  SameNotifications /\ SameFinalCounters /\ SameFinalBytes

\* the error events reported for a line that ended at a terminator, that
\* is, while fragments were still arriving
ErrorsWhileArriving ==
  {i \in Indices(events, "error") :
     events[i].detail.lineNum <= Cardinality(Terminators(input))}

\* the progress events without the bytesProcessed they carry
ProgressWithoutBytes(evs) ==
  LET ps == Payloads(evs, "progress")
  IN [i \in 1..Len(ps) |->
        [totalBytes |-> ps[i].totalBytes, lineNum |-> ps[i].lineNum,
         rowNum |-> ps[i].rowNum]]

\* the bytes counter counts the whole text when no error was reported
\* while fragments were arriving; after such an error it counts the
\* fragments up to the one that held the terminator of the erroring line
BytesCounted ==
  IF ErrorsWhileArriving = {}
  THEN bytesProcessed = Utf8Length(input)
  ELSE \A i \in ErrorsWhileArriving :
         /\ bytesProcessed >=
              Utf8Length(SubSeq(input, 1,
                                Kth(Terminators(input), events[i].detail.lineNum)))
         /\ bytesProcessed <= Utf8Length(input)

\* C37: fragmentation invariance of the notifications and counters.
\* However the text was cut, the headers, error and end events with their
\* payloads, the order of the events other than progress, the progress
\* events apart from their bytesProcessed, and the final line counter, row
\* counter and resolved headers are those of the delivery as one fragment;
\* the final bytes counter is too when no error was reported while
\* fragments were arriving, and otherwise lies between the bytes up to the
\* terminator of the erroring line and the bytes of the whole text.
C37_Invariance ==
  /\ SameNotifications
  /\ SameFinalCounters
  /\ ProgressWithoutBytes(events) = ProgressWithoutBytes(OneFragment.events)
  /\ BytesCounted
  /\ ErrorsWhileArriving = {} => SameFinalBytes

\* C37 witness: after the end of the input two rows and an end event were
\* emitted, and the text was cut so that a progress event carries another
\* bytesProcessed than in the delivery as one fragment
C37_Witness ==
  /\ closed
  /\ Cardinality(Indices(events, "csvrow")) = 2
  /\ Indices(events, "end") # {}
  /\ \E i \in 1..Len(Payloads(events, "progress")) :
       Payloads(events, "progress")[i].bytesProcessed
         # Payloads(OneFragment.events, "progress")[i].bytesProcessed

(***************************************************************************)
(* C38                                                                     *)
(***************************************************************************)
\* the lines, each followed by its line terminator, one after the other
RECURSIVE WithTerminators(_)
WithTerminators(lines) ==
  IF lines = <<>> THEN <<>>
  ELSE Head(lines) \o <<LF>> \o WithTerminators(Tail(lines))

\* C38: the pending text between fragment deliveries.  While the input is
\* open and no error or cancellation has occurred, the buffer is the part
\* of the text received so far that follows its last line terminator
\* outside quotes, it holds no line terminator outside quotes, and the
\* lines handed over, each with its terminator, followed by the buffer are
\* the text received so far.
C38_PendingText ==
  (~closed /\ ~hasError /\ ~aborted) =>
    /\ buffer = Unterminated(input)
    /\ Terminators(buffer) = {}
    /\ WithTerminators(handed) \o buffer = input

\* C38 witness: between two fragments, after a line was handed over, the
\* buffer holds an open quoted region with a line terminator in it
C38_Witness ==
  /\ ~closed /\ ~hasError /\ ~aborted
  /\ source # <<>>
  /\ Len(handed) > 0
  /\ Count(buffer, LF) > 0

(***************************************************************************)
(* C39                                                                     *)
(***************************************************************************)
\* the header list of the options as the constructor normalizes it
FixedHeaders ==
  [i \in 1..Len(Value(options.headers)) |->
     normalizeHeader(Value(options.headers)[i])]

\* C39: the modes without header row.  With expectHeaders false no headers
\* event is ever emitted, with or without a header list.  A header list
\* supplied is, from construction on, the value of the headers getter, and
\* its names are the keys of every row; without one the getter stays null
\* and the rows are keyed by the positions of their fields.
C39_NoHeadersEvent ==
  ~options.expectHeaders =>
    /\ Indices(events, "headers") = {}
    /\ headers = (IF IsNull(options.headers) THEN Null ELSE Some(FixedHeaders))
    /\ \A i \in Indices(events, "csvrow") :
         DOMAIN events[i].detail.fields =
           IF IsNull(options.headers)
           THEN {NumberToString(j) : j \in 1..events[i].detail.columnCount}
           ELSE {FixedHeaders[j] : j \in 1..Len(FixedHeaders)}

\* C39 witness: a stream with a header list and without header row emitted
\* two rows keyed by the supplied name and ended, without headers event
C39_Witness ==
  /\ ~options.expectHeaders /\ ~IsNull(options.headers)
  /\ closed
  /\ Indices(events, "end") # {}
  /\ Cardinality(Indices(events, "csvrow")) = 2
  /\ \A i \in Indices(events, "csvrow") : <<"a">> \in DOMAIN events[i].detail.fields

====
